---- MODULE Spec2Model ----
(***************************************************************************)
(* Verification model of the wedding RSVP service-dispatch core:           *)
(*   - BaseService / ExtendedBaseService (expiring cache + CRUD dispatch)  *)
(*   - checkRateLimit / cleanupRateLimit (fixed-window rate limiter)       *)
(*   - ApiClient.request / handleResponse and ApiErrorHandler.handleError  *)
(* Time is counted in minutes: Date.now() is the variable now.             *)
(* Strings are sequences of one-character strings, so that concatenation,  *)
(* JSON.stringify and String.prototype.includes are computed, not assumed. *)
(***************************************************************************)
EXTENDS Integers, Sequences, FiniteSets, TLC

VARIABLES
  now,            \* Date.now(), in minutes
  endpoint,       \* BaseService.endpoint
  cacheTimeout,   \* BaseService.cacheTimeout
  enableCache,    \* BaseService.enableCache
  cache,          \* BaseService.cache : key -> CacheEntry
  written,        \* history: key -> entry stored by the most recent setCache, until invalidated
  lastGet,        \* history: the last getCache call and what it returned
  steps,          \* number of operations performed so far (bounds the exploration)
  apiIn,          \* the fetch outcome last handed to ApiClient.request
  apiOut,         \* what ApiClient.request returned or threw for apiIn
  errIn,          \* the ApiError last handed to ApiErrorHandler.handleError
  errOut,         \* the string handleError returned for errIn
  calls,          \* per caller: the dispatcher operation in flight, if any
  srv,            \* revision of the data behind the resource endpoint
  transportCalls, \* number of apiClient calls issued so far
  prior,          \* history: key -> value and time of the last read served by the endpoint,
                  \*          forgotten at every successful write
  lastEvent,      \* history: the dispatcher step (invocation and/or completion) that led to
                  \*          the current state, Null after any other step
  rateLimitMap,   \* rateLimitMap : key -> [count, resetTime]
  checks,         \* number of checkRateLimit calls so far (bounds the exploration)
  inWindow,       \* history: identity -> calls made in the identity's current window
  solo,           \* history: identity -> the record the identity would have if no other
                  \*          identity had ever called checkRateLimit
  lastCheck,      \* history: the checkRateLimit call that led to the current state, Null
                  \*          after any other step
  allowedAt,      \* history: identity -> times of the allowed checkRateLimit calls, in order
  unswept,        \* history: the rateLimitMap there would be had cleanupRateLimit never run
  keyIn,          \* the two (endpoint, method, params) triples last handed to getCacheKey
  keyOut,         \* the two keys getCacheKey returned for keyIn
  handlers,       \* per slot: the POST request a route handler is processing, if any
  rsvpsFile,      \* the RSVP records stored in rsvps.json
  posts,          \* number of POST requests received so far (bounds the exploration)
  env,            \* process.env as read when the login route module is loaded
  arrivals,       \* history: rate-limit key -> requests checked in the key's current window
  lastResponse,   \* history: the route handler step that led to the current state, Null
                  \*          after any other step
  tokenIn,        \* the Authorization header last handed to the token-validation route
  tokenOut,       \* the response of the token-validation route for tokenIn
  currentUser,    \* EnhancedAuthService.currentUser
  currentTokens,  \* EnhancedAuthService.currentTokens
  localStorage,   \* window.localStorage : key -> stored item
  authCalls,      \* the EnhancedAuthService calls suspended at their apiClient call
  authOps,        \* number of EnhancedAuthService calls so far (bounds the exploration)
  sessionCheckInterval,  \* EnhancedAuthService.sessionCheckInterval: TRUE while the timer is set
  loggedOut       \* history: a logout() has completed and no login() has succeeded since

cacheVars == <<now, endpoint, cacheTimeout, enableCache, cache, written, lastGet, steps>>
apiVars == <<apiIn, apiOut, errIn, errOut>>
serviceVars == <<calls, srv, transportCalls, prior, lastEvent>>
rateVars == <<rateLimitMap, checks, inWindow, solo, lastCheck, allowedAt, unswept>>
keyVars == <<keyIn, keyOut>>
routeVars == <<handlers, rsvpsFile, posts, env, arrivals, lastResponse>>
tokenVars == <<tokenIn, tokenOut>>
authVars ==
  <<currentUser, currentTokens, localStorage, authCalls, authOps, sessionCheckInterval, loggedOut>>
otherVars == <<keyVars, tokenVars, authVars>>

vars == <<now, endpoint, cacheTimeout, enableCache, cache, written, lastGet, steps,
          apiIn, apiOut, errIn, errOut, calls, srv, transportCalls, prior, lastEvent,
          rateLimitMap, checks, inWindow, solo, lastCheck, allowedAt, unswept,
          keyIn, keyOut, handlers, rsvpsFile, posts, env, arrivals, lastResponse,
          tokenIn, tokenOut, currentUser, currentTokens, localStorage, authCalls, authOps,
          sessionCheckInterval, loggedOut>>

-----------------------------------------------------------------------------
(* Bounds *)

MaxTime == 6      \* the clock stops advancing here (cache primitives)
MaxClock == 3     \* the clock stops advancing here (service dispatcher)
MaxSteps == 3     \* operations per behaviour on the cache primitives
MaxOps == 2       \* dispatcher operations invoked per behaviour
MaxPagedOps == 3  \* dispatcher operations invoked per behaviour (paginated reads and writes)
MaxPagedCallers == 1  \* operations in flight together (paginated reads and writes)
MaxCallers == 2   \* dispatcher operations that can be in flight together
MaxChecks == 5    \* checkRateLimit calls per behaviour
MaxRateTime == 4  \* the clock stops advancing here (rate limiter)
Limit == 2        \* the maxRequests argument of the modelled callers
Window == 2       \* the windowMs argument of the modelled callers, in minutes
MaxHandlers == 2  \* route handler invocations that can be in flight together
MaxPosts == 11    \* RSVP POST requests received per behaviour
MaxLoginPosts == 6  \* login POST requests received per behaviour
MaxRouteClock == 1  \* the clock stops advancing here (route handlers)
MaxBatch == 2     \* ids, items or updates in one bulk request
MaxBulkOps == 2   \* dispatcher operations invoked per behaviour (bulk writes)
MaxAuthOps == 3   \* EnhancedAuthService calls and timer firings per behaviour
MaxTokenClock == 1442  \* the clock stops advancing here (token validation)

-----------------------------------------------------------------------------
(* Strings *)

S_colon == <<":">>
S_getAll == <<"g", "e", "t", "A", "l", "l">>
S_getById == <<"g", "e", "t", "B", "y", "I", "d">>
S_search == <<"s", "e", "a", "r", "c", "h">>
S_getPaginated == <<"g", "e", "t", "P", "a", "g", "i", "n", "a", "t", "e", "d">>
S_null == <<"n", "u", "l", "l">>
S_page == <<"p", "a", "g", "e">>
S_limit == <<"l", "i", "m", "i", "t">>

\* String.prototype.includes
Includes(s, pattern) ==
  \E i \in 0..(Len(s) - Len(pattern)) : SubSeq(s, i + 1, i + Len(pattern)) = pattern

\* Array.prototype.join over a sequence of strings
RECURSIVE Join(_, _)
Join(strs, sep) ==
  IF strs = <<>> THEN <<>>
  ELSE IF Len(strs) = 1 THEN strs[1]
  ELSE strs[1] \o sep \o Join(Tail(strs), sep)

\* JSON string escaping of the characters the model's alphabet contains
RECURSIVE JsonEscape(_)
JsonEscape(s) ==
  IF s = <<>> THEN <<>>
  ELSE (IF Head(s) \in {"\"", "\\"} THEN <<"\\", Head(s)>> ELSE <<Head(s)>>)
       \o JsonEscape(Tail(s))

JsonQuote(s) == <<"\"">> \o JsonEscape(s) \o <<"\"">>

\* JavaScript values that reach getCacheKey: undefined, null, a string, or a
\* Record<string,string> kept as its list of <<key, value>> in property order.
JsUndefined == [t |-> "undefined"]
JsNull == [t |-> "null"]
JsString(s) == [t |-> "string", s |-> s]
JsObject(kv) == [t |-> "object", kv |-> kv]

\* JSON.stringify of one element of the params array
JsonStringifyValue(v) ==
  IF v.t \in {"undefined", "null"} THEN S_null
  ELSE IF v.t = "string" THEN JsonQuote(v.s)
  ELSE <<"{">>
       \o Join([i \in 1..Len(v.kv) |->
                  JsonQuote(v.kv[i][1]) \o S_colon \o JsonQuote(v.kv[i][2])], <<",">>)
       \o <<"}">>

\* JSON.stringify(params) for the rest-parameter array
JsonStringify(params) ==
  <<"[">> \o Join([i \in 1..Len(params) |-> JsonStringifyValue(params[i])], <<",">>) \o <<"]">>

-----------------------------------------------------------------------------
(* Expiring cache: BaseService.getCacheKey / setCache / getCache / clearCache *)

DefaultCacheTimeout == 5   \* 5 * 60 * 1000 ms

Null == [absent |-> TRUE]
Data(rev) == [rev |-> rev]

\* An optional number is <<>> (undefined) or <<n>>.
Undefined == <<>>

\* x || fallback for an optional number
OrElse(x, fallback) == IF x = Undefined \/ x[1] = 0 THEN fallback ELSE x[1]

\* the template `${this.endpoint}:${method}:${JSON.stringify(params)}` of the
\* service whose endpoint is ep
CacheKeyFor(ep, method, params) ==
  ep \o S_colon \o method \o S_colon \o JsonStringify(params)

getCacheKey(method, params) == CacheKeyFor(endpoint, method, params)

CacheEntry(data, ttl) ==
  [data |-> data, timestamp |-> now, ttl |-> OrElse(ttl, cacheTimeout)]

\* the map after this.cache.set(key, entry)
MapSet(m, key, entry) ==
  [k \in DOMAIN m \cup {key} |-> IF k = key THEN entry ELSE m[k]]

\* the map after this.cache.delete(key)
MapDelete(m, key) == [k \in DOMAIN m \ {key} |-> m[k]]

EmptyMap == [k \in {} |-> Null]

CacheAfterSet_Inverted(c, key, data, ttl) ==
  IF enableCache THEN c ELSE MapSet(c, key, CacheEntry(data, ttl))

\* the cache after setCache(key, data, ttl)
CacheAfterSet(c, key, data, ttl) ==
  IF ~enableCache THEN c ELSE MapSet(c, key, CacheEntry(data, ttl))

Expired_AtTtl(entry) == now - entry.timestamp >= entry.ttl

\* the expiry test of getCache
Expired(entry) == now - entry.timestamp > entry.ttl

\* the value getCache(key) returns
CacheLookup(c, key) ==
  IF ~enableCache THEN Null
  ELSE IF key \notin DOMAIN c THEN Null
  ELSE IF Expired(c[key]) THEN Null
  ELSE c[key].data

\* the cache after getCache(key): an expired entry is deleted
CacheAfterGet(c, key) ==
  IF enableCache /\ key \in DOMAIN c /\ Expired(c[key]) THEN MapDelete(c, key) ELSE c

\* the keys clearCache(pattern) deletes; pattern is <<>> (omitted) or <<string>>.
\* An empty-string pattern is falsy and clears everything, like an omitted one.
ClearedKeys(c, pattern) ==
  IF pattern # <<>> /\ pattern[1] # <<>>
  THEN {k \in DOMAIN c : Includes(k, pattern[1])}
  ELSE DOMAIN c

CacheAfterClear(c, pattern) ==
  [k \in DOMAIN c \ ClearedKeys(c, pattern) |-> c[k]]

\* history bookkeeping shared by every caller of getCache
GetRecord(key) ==
  [key |-> key, result |-> CacheLookup(cache, key), at |-> now,
   stored |-> IF key \in DOMAIN written THEN written[key] ELSE Null]

\* history bookkeeping of setCache: what was stored, when setCache stores, and
\* the ttl argument it was called with
WrittenAfterSet(w, key, data, ttl) ==
  IF ~enableCache THEN w
  ELSE MapSet(w, key, [data |-> data, timestamp |-> now,
                       ttl |-> CacheEntry(data, ttl).ttl, ttlArg |-> ttl])

-----------------------------------------------------------------------------
(* The cache primitives called directly, as subclasses of BaseService do *)

Ids == { <<"7">>, S_getAll }
Endpoints == { <<"/", "r", "s", "v", "p", "s">> }
TtlArgs == { Undefined, <<0>>, <<1>>, <<-1>> }

PrimitiveKeys ==
  { getCacheKey(S_getAll, <<JsUndefined>>), getCacheKey(S_getById, <<JsString(<<"7">>)>>) }

Patterns == { <<>>, <<S_getAll>> }

InitConfig ==
  /\ endpoint \in Endpoints
  /\ cacheTimeout \in { OrElse(t, DefaultCacheTimeout) : t \in {Undefined, <<2>>} }
  /\ enableCache \in BOOLEAN

InitApi ==
  /\ apiIn = Null
  /\ apiOut = Null
  /\ errIn = Null
  /\ errOut = Null

Callers == 1..MaxCallers
Idle == [stage |-> "idle"]

InitService ==
  /\ calls = [c \in Callers |-> Idle]
  /\ srv = 0
  /\ transportCalls = 0
  /\ prior = EmptyMap
  /\ lastEvent = Null

Identities == { <<"X">>, <<"Y">> }

InitRate ==
  /\ rateLimitMap = EmptyMap
  /\ checks = 0
  /\ inWindow = [i \in Identities |-> 0]
  /\ solo = [i \in Identities |-> Null]
  /\ lastCheck = Null
  /\ allowedAt = [i \in Identities |-> <<>>]
  /\ unswept = EmptyMap

InitKey ==
  /\ keyIn = Null
  /\ keyOut = Null

InitToken ==
  /\ tokenIn = Null
  /\ tokenOut = Null

\* the state after the constructor of EnhancedAuthService, nothing stored
InitAuth ==
  /\ currentUser = Null
  /\ currentTokens = Null
  /\ localStorage = EmptyMap
  /\ authCalls = <<>>
  /\ authOps = 0
  /\ sessionCheckInterval = FALSE
  /\ loggedOut = FALSE

Slots == 1..MaxHandlers

S_adminPassword == <<"s", "3", "c", "r", "e", "t">>

\* the documented deployment: ADMIN_PASSWORD set, NODE_ENV production
DeployedEnv == [ADMIN_PASSWORD |-> <<S_adminPassword>>, NODE_ENV |-> "production"]

\* ADMIN_PASSWORD set, or unset in development or production
Environments ==
  { DeployedEnv,
    [ADMIN_PASSWORD |-> Undefined, NODE_ENV |-> "development"],
    [ADMIN_PASSWORD |-> Undefined, NODE_ENV |-> "production"] }

InitRoutes ==
  /\ handlers = [h \in Slots |-> Idle]
  /\ rsvpsFile = <<>>
  /\ posts = 0
  /\ env = DeployedEnv
  /\ arrivals = EmptyMap
  /\ lastResponse = Null

InitCache ==
  /\ now = 0
  /\ InitConfig
  /\ cache = EmptyMap
  /\ written = EmptyMap
  /\ lastGet = Null
  /\ steps = 0
  /\ InitApi
  /\ InitService
  /\ InitRate
  /\ InitKey
  /\ InitToken
  /\ InitAuth
  /\ InitRoutes

Tick(limit) ==
  /\ now < limit
  /\ now' = now + 1
  /\ lastEvent' = Null
  /\ lastCheck' = Null
  /\ UNCHANGED <<endpoint, cacheTimeout, enableCache, cache, written, lastGet, steps, apiVars,
                 calls, srv, transportCalls, prior, rateLimitMap, checks, inWindow, solo,
                 allowedAt, unswept, otherVars, handlers, rsvpsFile, posts, env, arrivals>>
  /\ lastResponse' = Null

setCache(key, data, ttl) ==
  /\ steps < MaxSteps
  /\ steps' = steps + 1
  /\ cache' = CacheAfterSet(cache, key, data, ttl)
  /\ written' = WrittenAfterSet(written, key, data, ttl)
  /\ UNCHANGED <<now, endpoint, cacheTimeout, enableCache, lastGet, apiVars, serviceVars, rateVars,
                 otherVars, routeVars>>

getCache(key) ==
  /\ steps < MaxSteps
  /\ steps' = steps + 1
  /\ lastGet' = GetRecord(key)
  /\ cache' = CacheAfterGet(cache, key)
  /\ UNCHANGED <<now, endpoint, cacheTimeout, enableCache, written, apiVars, serviceVars, rateVars,
                 otherVars, routeVars>>

clearCache(pattern) ==
  /\ steps < MaxSteps
  /\ steps' = steps + 1
  /\ cache' = CacheAfterClear(cache, pattern)
  /\ written' = CacheAfterClear(written, pattern)
  /\ UNCHANGED <<now, endpoint, cacheTimeout, enableCache, lastGet, apiVars, serviceVars, rateVars,
                 otherVars, routeVars>>

NextCache ==
  \/ Tick(MaxTime)
  \/ \E key \in PrimitiveKeys, ttl \in TtlArgs : setCache(key, Data(steps), ttl)
  \/ \E key \in PrimitiveKeys : getCache(key)
  \/ \E pattern \in Patterns : clearCache(pattern)

SpecCache == InitCache /\ [][NextCache]_vars

-----------------------------------------------------------------------------
(* getCacheKey applied to pairs of (endpoint, method, params) *)

KeyEndpoints == Endpoints \cup { <<"/", "a">>, <<"/", "a", ":", "b">> }
KeyMethods == { S_getAll, <<"b">>, <<"b", ":", "c">>, <<"c">> }
KeyParams ==
  { <<>>, <<JsUndefined>>, <<JsNull>>, <<JsString(<<"x">>)>>, <<JsObject(<<>>)>>,
    <<JsObject(<< <<<<"a">>, <<"1">>>>, <<<<"b">>, <<"2">>>> >>)>>,
    <<JsObject(<< <<<<"b">>, <<"2">>>>, <<<<"a">>, <<"1">>>> >>)>> }
KeyTriples ==
  { [endpoint |-> e, method |-> m, params |-> p] :
      e \in KeyEndpoints, m \in KeyMethods, p \in KeyParams }

\* one call per behaviour: the keys of two requests, each computed by the
\* service its endpoint belongs to
CallGetCacheKey ==
  /\ keyIn = Null
  /\ \E a \in KeyTriples, b \in KeyTriples :
       /\ keyIn' = <<a, b>>
       /\ keyOut' = <<CacheKeyFor(a.endpoint, a.method, a.params),
                      CacheKeyFor(b.endpoint, b.method, b.params)>>
  /\ UNCHANGED <<cacheVars, apiVars, serviceVars, rateVars, routeVars, tokenVars, authVars>>

InitKeySpec ==
  /\ now = 0
  /\ endpoint \in Endpoints
  /\ cacheTimeout = DefaultCacheTimeout
  /\ enableCache = TRUE
  /\ cache = EmptyMap
  /\ written = EmptyMap
  /\ lastGet = Null
  /\ steps = 0
  /\ InitApi
  /\ InitService
  /\ InitRate
  /\ InitKey
  /\ InitToken
  /\ InitAuth
  /\ InitRoutes

NextKey == CallGetCacheKey

SpecKey == InitKeySpec /\ [][NextKey]_vars

-----------------------------------------------------------------------------
(* Transport layer: ApiErrorClass, ApiClient.handleResponse, ApiClient.request *)
(* Literal messages are kept as runs of characters; a run that a searched   *)
(* pattern can neither start nor end in is written as a single element.     *)

M_parse == <<"Failed to parse response">>
M_notFound == <<"The requested resource was ", "n", "o", "t", " ", "f", "o", "u", "n", "d", ".">>
M_expired == <<"Your session has expired. Please log in again.">>
M_forbidden == <<"You do not have permission to perform this action.">>
M_conflict == <<"This action conflicts with existing data.">>
M_validation == <<"Validation failed. Please check your input.">>
M_server == <<"An internal server error occurred. Please try again later.">>
M_connect == <<"Unable to connect to the server. Please check your internet connection.">>
M_badRequest == <<"Bad request">>
M_unexpected == <<"An unexpected error occurred.">>
S_NETWORK_ERROR == <<"NETWORK_ERROR">>
S_notFoundPattern == <<"n", "o", "t", " ", "f", "o", "u", "n", "d">>

\* new ApiErrorClass(message, status, code?, details?); an optional field is
\* <<>> when undefined and <<value>> otherwise
ApiErrorClass(message, status, code, details) ==
  [message |-> message, status |-> status, code |-> code, details |-> details]

\* the template `HTTP ${response.status}: ${response.statusText}`
NumStr(n) ==
  CASE n = 0 -> <<"0">> [] n = 1 -> <<"1">> [] n = 2 -> <<"2">> [] n = 10 -> <<"1", "0">>
    [] n = 200 -> <<"2", "0", "0">> [] n = 400 -> <<"4", "0", "0">>
    [] n = 401 -> <<"4", "0", "1">> [] n = 403 -> <<"4", "0", "3">>
    [] n = 404 -> <<"4", "0", "4">> [] n = 409 -> <<"4", "0", "9">>
    [] n = 422 -> <<"4", "2", "2">> [] n = 500 -> <<"5", "0", "0">>
    [] n = 999 -> <<"9", "9", "9">>

HttpStatusLine(response) == <<"HTTP ">> \o NumStr(response.status) \o <<": ">> \o response.statusText

\* x || y on optional values: an undefined or empty-string x is falsy
OptOr(x, y) == IF x = Undefined \/ x[1] = <<>> THEN y ELSE x

Thrown(e) == [threw |-> TRUE, isApiError |-> TRUE, error |-> e]
\* a TypeError or a fetch rejection: an Error that is not an ApiErrorClass
ThrownError(message) ==
  [threw |-> TRUE, isApiError |-> FALSE,
   error |-> [message |-> message, status |-> Undefined, code |-> Undefined, details |-> Undefined]]
Returned(v) == [threw |-> FALSE, value |-> v]

\* A fetch outcome is a rejection, [rejected |-> TRUE, message], or a Response:
\*   status, ok (status in 200..299), statusText, parses (json()/text() succeeds),
\*   body: [t |-> "text"], [t |-> "null"] (JSON null) or
\*         [t |-> "object", message, code, errors, details] (optional fields)
handleResponse(response) ==
  IF ~response.parses THEN Thrown(ApiErrorClass(M_parse, response.status, Undefined, Undefined))
  ELSE IF response.body.t = "null"
       THEN ThrownError(<<"Cannot read properties of null">>)
  ELSE IF ~response.ok
       THEN IF response.body.t = "text"
            THEN Thrown(ApiErrorClass(HttpStatusLine(response), response.status,
                                      Undefined, Undefined))
            ELSE Thrown(ApiErrorClass(
                   OptOr(response.body.message, <<HttpStatusLine(response)>>)[1],
                   response.status,
                   response.body.code,
                   IF response.body.errors # Undefined THEN response.body.errors
                                                       ELSE response.body.details))
  ELSE Returned([data |-> response.body, status |-> response.status,
                 message |-> IF response.body.t = "object" THEN response.body.message
                                                           ELSE Undefined])

RequestCatch_NoCode(outcome) ==
  IF outcome.threw
  THEN Thrown(ApiErrorClass(outcome.error.message, 0, Undefined, Undefined))
  ELSE outcome

\* the catch block of request: every Error, ApiErrorClass included, is rethrown
\* as ApiErrorClass(error.message, 0, 'NETWORK_ERROR')
RequestCatch(outcome) ==
  IF outcome.threw
  THEN Thrown(ApiErrorClass(outcome.error.message, 0, <<S_NETWORK_ERROR>>, Undefined))
  ELSE outcome

request(fetched) ==
  IF fetched.rejected THEN RequestCatch(ThrownError(fetched.message))
  ELSE RequestCatch(handleResponse(fetched))

-----------------------------------------------------------------------------
(* ApiErrorHandler.handleError *)

\* Array.prototype.flat over Object.values(details): details is a list of
\* string lists
RECURSIVE Flat(_)
Flat(lists) == IF lists = <<>> THEN <<>> ELSE Head(lists) \o Flat(Tail(lists))

DetailsSummary(details) == Join(Flat(details), <<",", " ">>)

\* message || fallback
MsgOr(message, fallback) == IF message = <<>> THEN fallback ELSE message

handleError(error) ==
  CASE error.status = 400 ->
         IF error.details # Undefined THEN DetailsSummary(error.details[1])
         ELSE MsgOr(error.message, M_badRequest)
    [] error.status = 401 -> M_expired
    [] error.status = 403 -> M_forbidden
    [] error.status = 404 -> M_notFound
    [] error.status = 409 -> M_conflict
    [] error.status = 422 ->
         IF error.details # Undefined THEN DetailsSummary(error.details[1])
         ELSE M_validation
    [] error.status = 500 -> M_server
    [] error.status = 0 -> M_connect
    [] OTHER -> MsgOr(error.message, M_unexpected)

-----------------------------------------------------------------------------
(* The transport layer and the error mapping applied to bounded inputs *)

Statuses == {200, 400, 401, 403, 404, 409, 422, 500, 999}
ServerMessages == { Undefined, << <<>> >>, << <<"x">> >>, << S_notFoundPattern >> }
\* details: undefined, {}, {a: []}, {a: ["e"]}, {a: ["e"], b: ["f", "g"]}
Details(values) == <<values>>
DetailValues ==
  { Undefined, Details(<<>>), Details(<< <<>> >>), Details(<< << <<"e">> >> >>),
    Details(<< << <<"e">> >>, << <<"f">>, <<"g">> >> >>) }
Bodies ==
  { [t |-> "text"], [t |-> "null"] }
  \cup { [t |-> "object", message |-> m, code |-> c, errors |-> e, details |-> d] :
           m \in ServerMessages, c \in {Undefined, << <<"E1">> >>},
           e \in {Undefined, Details(<< << <<"bad">> >> >>)},
           d \in {Undefined, Details(<<>>), Details(<< << <<"e">> >> >>)} }

Responses ==
  { [rejected |-> FALSE, status |-> st, ok |-> (st >= 200 /\ st <= 299),
     statusText |-> <<"T">>, parses |-> p, body |-> b] :
       st \in Statuses, p \in BOOLEAN, b \in Bodies }

Rejections == { [rejected |-> TRUE, message |-> <<"Failed to fetch">>] }

\* the TypeError messages with which fetch rejects when no response arrives
NetworkFailures ==
  Rejections \cup { [rejected |-> TRUE, message |-> <<"Load failed">>],
                    [rejected |-> TRUE, message |-> <<>>] }

ApiErrors ==
  { ApiErrorClass(m, st, Undefined, d) :
      m \in { <<>>, <<"x">> }, st \in (Statuses \ {200}) \cup {0}, d \in DetailValues }

\* one call per behaviour: the functions are applied to every input once
CallRequest ==
  /\ apiIn = Null /\ errIn = Null
  /\ \E f \in Responses \cup NetworkFailures :
       /\ apiIn' = f
       /\ apiOut' = request(f)
  /\ UNCHANGED <<cacheVars, serviceVars, rateVars, otherVars, routeVars, errIn, errOut>>

CallHandleError ==
  /\ apiIn = Null /\ errIn = Null
  /\ \E e \in ApiErrors :
       /\ errIn' = e
       /\ errOut' = handleError(e)
  /\ UNCHANGED <<cacheVars, serviceVars, rateVars, otherVars, routeVars, apiIn, apiOut>>

InitApiSpec ==
  /\ now = 0
  /\ endpoint \in Endpoints
  /\ cacheTimeout = DefaultCacheTimeout
  /\ enableCache = TRUE
  /\ cache = EmptyMap
  /\ written = EmptyMap
  /\ lastGet = Null
  /\ steps = 0
  /\ InitApi
  /\ InitService
  /\ InitRate
  /\ InitKey
  /\ InitToken
  /\ InitAuth
  /\ InitRoutes

NextApi == CallRequest \/ CallHandleError

SpecApi == InitApiSpec /\ [][NextApi]_vars

-----------------------------------------------------------------------------
(* Service dispatcher: BaseService / ExtendedBaseService                     *)
(* An operation runs up to its await of apiClient (invocation), the endpoint *)
(* answers (Transport), and the operation's continuation runs (resolution).  *)

SearchTtl == 1   \* 60000 ms
RsvpCacheTimeout == 2   \* 2 * 60 * 1000 ms

JsBool(b) == [bool |-> b]

handleServiceError_Swallows(outcome, context) ==
  IF ~outcome.threw THEN outcome ELSE Returned(Null)

\* handleServiceError: the outcome of the wrapped operation as the caller sees it
handleServiceError(outcome, context) ==
  IF ~outcome.threw THEN outcome
  ELSE IF outcome.isApiError THEN ThrownError(handleError(outcome.error))
  ELSE ThrownError(<<"Failed to ">> \o context \o <<": ">> \o outcome.error.message)

Ctx_getAll == <<"fetch all items">>
Ctx_getById(id) == <<"fetch item with ID ">> \o id
Ctx_create == <<"create new item">>
Ctx_update(id) == <<"update item with ID ">> \o id
Ctx_patch(id) == <<"partially update item with ID ">> \o id
Ctx_delete(id) == <<"delete item with ID ">> \o id
Ctx_exists(id) == <<"check if item with ID ">> \o id \o <<" exists">>
Ctx_bulkCreate == <<"bulk create items">>
Ctx_bulkUpdate == <<"bulk update items">>
Ctx_bulkDelete == <<"bulk delete items">>
Ctx_search(query) == <<"search items with query \"">> \o query \o <<"\"">>
Ctx_getPaginated(page) == <<"fetch paginated results (page ">> \o NumStr(page) \o <<")">>

\* the try/catch of exists around this.getById(id), inside its own handleServiceError
ExistsOutcome(inner, id) ==
  IF ~inner.threw THEN Returned(JsBool(TRUE))
  ELSE IF Includes(inner.error.message, S_notFoundPattern) THEN Returned(JsBool(FALSE))
  ELSE handleServiceError(inner, Ctx_exists(id))

\* what the caller of a read operation gets, given the outcome of its body
ReadOutcome(call, bodyOutcome) ==
  LET wrapped == handleServiceError(bodyOutcome, call.context)
  IN IF call.op = "exists" THEN ExistsOutcome(wrapped, call.id) ELSE wrapped

\* the context string of the handleServiceError the caller's operation runs in
OuterContext(op, context, id) == IF op = "exists" THEN Ctx_exists(id) ELSE context

\* fetch outcomes of the resource endpoint
ObjectBody(message) ==
  [t |-> "object", message |-> message, code |-> Undefined, errors |-> Undefined,
   details |-> Undefined]
FetchOk(rev) ==
  [rejected |-> FALSE, status |-> 200, ok |-> TRUE, statusText |-> <<"OK">>, parses |-> TRUE,
   body |-> [t |-> "object", message |-> Undefined, code |-> Undefined, errors |-> Undefined,
             details |-> Undefined, rev |-> rev]]
FetchStatus(status, message) ==
  [rejected |-> FALSE, status |-> status, ok |-> FALSE, statusText |-> <<"T">>, parses |-> TRUE,
   body |-> ObjectBody(message)]
FetchFailures ==
  { FetchStatus(404, Undefined) } \cup Rejections

\* an operation takes the first slot that holds no operation in flight
FreeSlot(c) == calls[c] = Idle /\ \A d \in Callers : d < c => calls[d] # Idle

\* the synchronous part of a cached read: key, lookup, hit or apiClient.get
StartRead(c, op, method, params, ttl, context, id) ==
  LET key == getCacheKey(method, params)
      cached == CacheLookup(cache, key)
      call == [stage |-> "sent", kind |-> "read", op |-> op, key |-> key, ttl |-> ttl,
               context |-> context, id |-> id, overtaken |-> <<>>]
      event == [op |-> op, key |-> key, context |-> OuterContext(op, context, id),
                started |-> TRUE, finished |-> cached # Null,
                hit |-> cached # Null, before |-> cache, at |-> now,
                prior |-> IF key \in DOMAIN prior THEN prior[key] ELSE Null,
                issued |-> IF cached # Null THEN 0 ELSE 1,
                fetched |-> Null,
                result |-> IF cached # Null THEN ReadOutcome(call, Returned(cached)) ELSE Null]
  IN /\ FreeSlot(c)
     /\ steps' = steps + 1
     /\ cache' = CacheAfterGet(cache, key)
     /\ calls' = IF cached # Null THEN calls ELSE [calls EXCEPT ![c] = call]
     /\ transportCalls' = transportCalls + event.issued
     /\ lastEvent' = event
     /\ UNCHANGED <<now, endpoint, cacheTimeout, enableCache, written, lastGet, srv, prior,
                    apiVars, rateVars, otherVars, routeVars>>

\* history bookkeeping: the reads in flight when a write is issued. A write
\* keeps them as older until they resolve, and its continuation notes on those
\* still in flight the revision it wrote.
ReadsInFlight == {d \in Callers : calls[d] # Idle /\ calls[d].kind = "read"}

\* a write operation up to its await of apiClient.post/put/patch/delete
StartWrite(c, op, pattern, context, batch) ==
  /\ FreeSlot(c)
  /\ steps' = steps + 1
  /\ calls' = [calls EXCEPT ![c] = [stage |-> "sent", kind |-> "write", op |-> op,
                                    pattern |-> pattern, context |-> context,
                                    batch |-> batch, older |-> ReadsInFlight]]
  /\ transportCalls' = transportCalls + 1
  /\ lastEvent' = [op |-> op, key |-> <<>>, context |-> context,
                   started |-> TRUE, finished |-> FALSE, hit |-> FALSE,
                   before |-> cache, at |-> now, prior |-> Null, issued |-> 1,
                   fetched |-> Null, result |-> Null]
  /\ UNCHANGED <<now, endpoint, cacheTimeout, enableCache, cache, written, lastGet, srv, prior,
                 apiVars, rateVars, otherVars, routeVars>>

getAll(c, params) ==
  StartRead(c, "getAll", S_getAll, <<params>>, Undefined, Ctx_getAll, <<>>)

getById(c, id) ==
  StartRead(c, "getById", S_getById, <<JsString(id)>>, Undefined, Ctx_getById(id), id)

exists(c, id) ==
  StartRead(c, "exists", S_getById, <<JsString(id)>>, Undefined, Ctx_getById(id), id)

search(c, query) ==
  StartRead(c, "search", S_search, <<JsObject(<< <<<<"q">>, query>> >>)>>, <<SearchTtl>>,
            Ctx_search(query), <<>>)

\* the params object { page: page.toString(), limit: limit.toString() }
PaginatedParams(page, limit) ==
  JsObject(<< <<S_page, NumStr(page)>>, <<S_limit, NumStr(limit)>> >>)

getPaginated(c, page, limit) ==
  StartRead(c, "getPaginated", S_getPaginated, <<PaginatedParams(page, limit)>>,
            Undefined, Ctx_getPaginated(page), <<>>)

create_ClearsAll(c) == StartWrite(c, "create", <<>>, Ctx_create, <<>>)

\* the writes: the last argument is the batch the one request carries, the
\* items of bulkCreate, the updates of bulkUpdate, the ids of bulkDelete
create(c) == StartWrite(c, "create", <<S_getAll>>, Ctx_create, <<>>)
update_ListOnly(c, id) == StartWrite(c, "update", <<S_getAll>>, Ctx_update(id), <<id>>)
update(c, id) == StartWrite(c, "update", <<>>, Ctx_update(id), <<id>>)
patch(c, id) == StartWrite(c, "patch", <<>>, Ctx_patch(id), <<id>>)
delete(c, id) == StartWrite(c, "delete", <<>>, Ctx_delete(id), <<id>>)
bulkCreate(c, items) == StartWrite(c, "bulkCreate", <<S_getAll>>, Ctx_bulkCreate, items)
bulkUpdate(c, updates) == StartWrite(c, "bulkUpdate", <<>>, Ctx_bulkUpdate, updates)
bulkDelete(c, ids) == StartWrite(c, "bulkDelete", <<>>, Ctx_bulkDelete, ids)

\* the endpoint serves a call in flight: a read is answered from the current
\* data, a write changes the data
Transport(c) ==
  /\ calls[c].stage = "sent"
  /\ srv' = IF calls[c].kind = "write" THEN srv + 1 ELSE srv
  /\ calls' = [calls EXCEPT ![c] = [calls[c] EXCEPT !.stage = "replied"] @@ [rev |-> srv']]
  /\ lastEvent' = Null
  /\ UNCHANGED <<cacheVars, apiVars, rateVars, otherVars, routeVars, transportCalls, prior>>

\* the connection of a call in flight stalls: request passes fetch neither a
\* signal nor a timeout, so the promise of fetch stays pending
Stall(c) ==
  /\ calls[c].stage \in {"sent", "replied"}
  /\ calls' = [calls EXCEPT ![c] = [calls[c] EXCEPT !.stage = "stalled"]]
  /\ lastEvent' = Null
  /\ UNCHANGED <<cacheVars, apiVars, rateVars, otherVars, routeVars, srv, transportCalls, prior>>

\* what fetch can settle with for a call: the endpoint's answer once it has
\* served the call, or a failure (refused by the endpoint, or lost on the way);
\* nothing while the connection is stalled
FetchOutcomes(call) ==
  IF call.stage = "stalled" THEN {}
  ELSE (IF call.stage = "replied" THEN {FetchOk(call.rev)} ELSE {}) \cup FetchFailures

\* the continuation of a cached read after await apiClient.get
ReadResolve(c, fetched) ==
  LET call == calls[c]
      outcome == request(fetched)
      body == IF outcome.threw THEN outcome ELSE Returned(outcome.value.data)
  IN /\ call.stage # "idle"
     /\ call.kind = "read"
     /\ fetched \in FetchOutcomes(call)
     /\ cache' = IF outcome.threw THEN cache
                 ELSE CacheAfterSet(cache, call.key, outcome.value.data, call.ttl)
     /\ prior' = IF outcome.threw THEN prior
                 ELSE MapSet(prior, call.key, [value |-> outcome.value.data, at |-> now])
     /\ calls' = [d \in Callers |->
                   IF d = c THEN Idle
                   ELSE IF calls[d] # Idle /\ calls[d].kind = "write"
                        THEN [calls[d] EXCEPT !.older = @ \ {c}]
                        ELSE calls[d]]
     /\ lastEvent' = [op |-> call.op, key |-> call.key,
                      context |-> OuterContext(call.op, call.context, call.id),
                      started |-> FALSE, finished |-> TRUE,
                      hit |-> FALSE, before |-> cache, at |-> now, prior |-> Null,
                      issued |-> 0, fetched |-> fetched, overtaken |-> call.overtaken,
                      result |-> ReadOutcome(call, body)]
     /\ UNCHANGED <<now, endpoint, cacheTimeout, enableCache, written, lastGet, steps, srv,
                    transportCalls, apiVars, rateVars, otherVars, routeVars>>

CacheAfterWrite_Always(c, outcome, pattern) == CacheAfterClear(c, pattern)

\* the cache after the continuation of a write: this.clearCache(...) runs only
\* when the awaited apiClient call did not throw
CacheAfterWrite(c, outcome, pattern) ==
  IF outcome.threw THEN c ELSE CacheAfterClear(c, pattern)

ClearPasses_PerItem(outcome, batch) == IF outcome.threw THEN 0 ELSE Len(batch)

\* the number of this.clearCache(...) calls the continuation of a write makes:
\* the one call that follows the await, outside any loop over the batch
ClearPasses(outcome, batch) == IF outcome.threw THEN 0 ELSE 1

\* the continuation of a write after its await: clearCache, then return
WriteResolve(c, fetched) ==
  LET call == calls[c]
      outcome == request(fetched)
      body == IF outcome.threw THEN outcome ELSE Returned(outcome.value.data)
  IN /\ call.stage # "idle"
     /\ call.kind = "write"
     /\ fetched \in FetchOutcomes(call)
     /\ cache' = CacheAfterWrite(cache, outcome, call.pattern)
     /\ prior' = IF outcome.threw THEN prior ELSE EmptyMap
     /\ calls' = [d \in Callers |->
                   IF d = c THEN Idle
                   ELSE IF ~outcome.threw /\ d \in call.older
                        THEN [calls[d] EXCEPT !.overtaken = <<call.rev>>]
                        ELSE calls[d]]
     /\ lastEvent' = [op |-> call.op, key |-> <<>>, context |-> call.context,
                      started |-> FALSE, finished |-> TRUE,
                      hit |-> FALSE, before |-> cache, at |-> now, prior |-> Null,
                      issued |-> 0, fetched |-> fetched,
                      passes |-> ClearPasses(outcome, call.batch),
                      batch |-> call.batch,
                      result |-> handleServiceError(body, call.context)]
     /\ UNCHANGED <<now, endpoint, cacheTimeout, enableCache, written, lastGet, steps, srv,
                    transportCalls, apiVars, rateVars, otherVars, routeVars>>

FilterArgs == { JsUndefined, JsObject(<< <<<<"a">>, <<"b">>>> >>) }
WriteIds == { <<"7">> }
\* the batches of at most MaxBatch ids
Batches == UNION { [1..n -> WriteIds] : n \in 0..MaxBatch }
PairBatches == { << <<"7">>, <<"7">> >> }
Queries == { <<"q">> }
Pages == {1, 2}
PageLimit == 10   \* default of the limit parameter

\* the configuration of EnhancedRSVPService
InitServiceSpec ==
  /\ now = 0
  /\ endpoint \in Endpoints
  /\ cacheTimeout = OrElse(<<RsvpCacheTimeout>>, DefaultCacheTimeout)
  /\ enableCache = TRUE
  /\ cache = EmptyMap
  /\ written = EmptyMap
  /\ lastGet = Null
  /\ steps = 0
  /\ InitApi
  /\ InitService
  /\ InitRate
  /\ InitKey
  /\ InitToken
  /\ InitAuth
  /\ InitRoutes

\* the endpoint and the continuations of the calls in flight
Settle(c) ==
  \/ Transport(c)
  \/ \E fetched \in FetchOutcomes(calls[c]) : ReadResolve(c, fetched)
  \/ \E fetched \in FetchOutcomes(calls[c]) : WriteResolve(c, fetched)

NextService ==
  \/ Tick(MaxClock)
  \/ \E c \in Callers :
       \/ steps < MaxOps /\ \E params \in FilterArgs : getAll(c, params)
       \/ steps < MaxOps /\ \E id \in Ids : getById(c, id)
       \/ steps < MaxOps /\ \E id \in Ids : exists(c, id)
       \/ steps < MaxOps /\ \E query \in Queries : search(c, query)
       \/ steps < MaxOps /\ \E page \in Pages : getPaginated(c, page, PageLimit)
       \/ steps < MaxOps /\ create(c)
       \/ steps < MaxOps /\ \E id \in WriteIds : update(c, id)
       \/ steps < MaxOps /\ \E id \in WriteIds : patch(c, id)
       \/ steps < MaxOps /\ \E id \in WriteIds : delete(c, id)
       \/ steps < MaxOps /\ \E items \in PairBatches : bulkCreate(c, items)
       \/ steps < MaxOps /\ \E updates \in PairBatches : bulkUpdate(c, updates)
       \/ steps < MaxOps /\ \E ids \in PairBatches : bulkDelete(c, ids)
       \/ Settle(c)

SpecService == InitServiceSpec /\ [][NextService]_vars

\* paginated reads interleaved with the single-item writes
NextPaged ==
  \/ Tick(MaxClock)
  \/ \E c \in 1..MaxPagedCallers :
       \/ steps < MaxPagedOps /\ \E page \in Pages : getPaginated(c, page, PageLimit)
       \/ steps < MaxPagedOps /\ create(c)
       \/ steps < MaxPagedOps /\ \E id \in WriteIds : update(c, id)
       \/ steps < MaxPagedOps /\ \E id \in WriteIds : delete(c, id)
       \/ Settle(c)

SpecPaged == InitServiceSpec /\ [][NextPaged]_vars

\* the bulk writes on batches of every size, interleaved with cached reads,
\* all within the lifetime of the cache entries
NextBulk ==
  \E c \in 1..MaxPagedCallers :
       \/ steps < MaxBulkOps /\ \E params \in FilterArgs : getAll(c, params)
       \/ steps < MaxBulkOps /\ \E id \in WriteIds : getById(c, id)
       \/ steps < MaxBulkOps /\ \E items \in Batches : bulkCreate(c, items)
       \/ steps < MaxBulkOps /\ \E updates \in Batches : bulkUpdate(c, updates)
       \/ steps < MaxBulkOps /\ \E ids \in Batches : bulkDelete(c, ids)
       \/ Settle(c)

SpecBulk == InitServiceSpec /\ [][NextBulk]_vars

\* reads and writes over connections that can stall; the event loop runs the
\* continuation of every call whose fetch settles
NextLive ==
  \/ Tick(MaxClock)
  \/ \E c \in Callers :
       \/ steps < MaxOps /\ \E params \in FilterArgs : getAll(c, params)
       \/ steps < MaxOps /\ \E id \in Ids : getById(c, id)
       \/ steps < MaxOps /\ create(c)
       \/ steps < MaxOps /\ \E id \in WriteIds : update(c, id)
       \/ Settle(c)
       \/ Stall(c)

SpecLive ==
  InitServiceSpec /\ [][NextLive]_vars /\ \A c \in Callers : WF_vars(Settle(c))

-----------------------------------------------------------------------------
(* Rate limiter: checkRateLimit / cleanupRateLimit *)

S_rate_limit == <<"r", "a", "t", "e", "_", "l", "i", "m", "i", "t", ":">>

RateLimitKey_Shared(identifier) == S_rate_limit

\* the template `rate_limit:${identifier}`
RateLimitKey(identifier) == S_rate_limit \o identifier

\* rateLimitMap.get(key), Null when there is no entry
RateRecord(m, identifier) ==
  IF RateLimitKey(identifier) \in DOMAIN m THEN m[RateLimitKey(identifier)] ELSE Null

WindowOver_AtReset(current) == current = Null \/ now >= current.resetTime

\* !current || now > current.resetTime
WindowOver(current) == current = Null \/ now > current.resetTime

RecordAfterCheck_ResetsAtReset(current, maxRequests, windowMs) ==
  IF WindowOver(current) \/ now = current.resetTime
  THEN [count |-> 1, resetTime |-> now + windowMs]
  ELSE IF current.count >= maxRequests THEN current
  ELSE [current EXCEPT !.count = current.count + 1]

RecordAfterCheck_CountsDenied(current, maxRequests, windowMs) ==
  IF WindowOver(current) THEN [count |-> 1, resetTime |-> now + windowMs]
  ELSE [current EXCEPT !.count = current.count + 1]

\* the record checkRateLimit leaves for the identity, given the record it found
RecordAfterCheck(current, maxRequests, windowMs) ==
  IF WindowOver(current) THEN [count |-> 1, resetTime |-> now + windowMs]
  ELSE IF current.count >= maxRequests THEN current
  ELSE [current EXCEPT !.count = current.count + 1]

CheckResult_OffByOne(current, maxRequests, windowMs) ==
  IF WindowOver(current) THEN [allowed |-> TRUE, resetTime |-> now + windowMs]
  ELSE IF current.count > maxRequests THEN [allowed |-> FALSE, resetTime |-> current.resetTime]
  ELSE [allowed |-> TRUE, resetTime |-> current.resetTime]

\* the value checkRateLimit returns, given the record it found
CheckResult(current, maxRequests, windowMs) ==
  IF WindowOver(current) THEN [allowed |-> TRUE, resetTime |-> now + windowMs]
  ELSE IF current.count >= maxRequests THEN [allowed |-> FALSE, resetTime |-> current.resetTime]
  ELSE [allowed |-> TRUE, resetTime |-> current.resetTime]

RecordAfterCleanup_AtReset(current) ==
  IF current # Null /\ now >= current.resetTime THEN Null ELSE current

\* the record cleanupRateLimit leaves: an entry with now > resetTime is deleted
RecordAfterCleanup(current) ==
  IF current # Null /\ now > current.resetTime THEN Null ELSE current

RateMapAfterCheck_Dropped(m, identifier, maxRequests, windowMs) ==
  IF RateLimitKey(identifier) \in DOMAIN m THEN m
  ELSE MapSet(m, RateLimitKey(identifier),
              RecordAfterCheck(RateRecord(m, identifier), maxRequests, windowMs))

\* rateLimitMap after checkRateLimit(identifier, maxRequests, windowMs)
RateMapAfterCheck(m, identifier, maxRequests, windowMs) ==
  MapSet(m, RateLimitKey(identifier),
         RecordAfterCheck(RateRecord(m, identifier), maxRequests, windowMs))

checkRateLimit(identifier, maxRequests, windowMs) ==
  LET current == RateRecord(rateLimitMap, identifier)
      result == CheckResult(current, maxRequests, windowMs)
  IN /\ checks < MaxChecks
     /\ checks' = checks + 1
     /\ rateLimitMap' = RateMapAfterCheck(rateLimitMap, identifier, maxRequests, windowMs)
     /\ inWindow' = [inWindow EXCEPT ![identifier] = IF WindowOver(current) THEN 1 ELSE @ + 1]
     /\ solo' = [solo EXCEPT ![identifier] = RecordAfterCheck(@, maxRequests, windowMs)]
     /\ unswept' = RateMapAfterCheck(unswept, identifier, maxRequests, windowMs)
     /\ allowedAt' = [allowedAt EXCEPT ![identifier] =
                        IF result.allowed THEN Append(@, now) ELSE @]
     /\ lastCheck' = [identifier |-> identifier, maxRequests |-> maxRequests,
                      windowMs |-> windowMs, at |-> now, before |-> rateLimitMap,
                      current |-> current, callsBefore |-> inWindow[identifier],
                      allowed |-> result.allowed, resetTime |-> result.resetTime,
                      soloAllowed |-> CheckResult(solo[identifier], maxRequests, windowMs).allowed,
                      unsweptCurrent |-> RateRecord(unswept, identifier),
                      unsweptResult |-> CheckResult(RateRecord(unswept, identifier),
                                                    maxRequests, windowMs)]
     /\ UNCHANGED <<cacheVars, apiVars, otherVars, routeVars, calls, srv, transportCalls, prior>>
     /\ lastEvent' = Null

cleanupRateLimit ==
  /\ rateLimitMap' = [k \in {j \in DOMAIN rateLimitMap :
                              RecordAfterCleanup(rateLimitMap[j]) # Null} |-> rateLimitMap[k]]
  /\ solo' = [i \in Identities |-> RecordAfterCleanup(solo[i])]
  /\ lastCheck' = Null
  /\ lastEvent' = Null
  /\ UNCHANGED <<cacheVars, apiVars, otherVars, routeVars, calls, srv, transportCalls, prior,
                 checks, inWindow, allowedAt, unswept>>

InitRateSpec ==
  /\ now = 0
  /\ endpoint \in Endpoints
  /\ cacheTimeout = DefaultCacheTimeout
  /\ enableCache = TRUE
  /\ cache = EmptyMap
  /\ written = EmptyMap
  /\ lastGet = Null
  /\ steps = 0
  /\ InitApi
  /\ InitService
  /\ InitRate
  /\ InitKey
  /\ InitToken
  /\ InitAuth
  /\ InitRoutes

NextRate ==
  \/ Tick(MaxRateTime)
  \/ \E identifier \in Identities : checkRateLimit(identifier, Limit, Window)
  \/ cleanupRateLimit

SpecRate == InitRateSpec /\ [][NextRate]_vars

\* callers that pass maxRequests = 0: a limit that admits no request
NextRateZero ==
  \/ Tick(MaxRateTime)
  \/ \E identifier \in Identities : checkRateLimit(identifier, 0, Window)
  \/ cleanupRateLimit

SpecRateZero == InitRateSpec /\ [][NextRateZero]_vars

-----------------------------------------------------------------------------
(* Tokens: base64, parseInt, and the token the login route issues            *)

maxAge == 1440   \* 24 * 60 * 60 * 1000 ms

\* the string without its leading blanks
RECURSIVE TrimStart(_)
TrimStart(str) == IF str # <<>> /\ Head(str) = " " THEN TrimStart(Tail(str)) ELSE str

\* the base64 alphabet, value 0 first
B64Chars ==
  <<"A", "B", "C", "D", "E", "F", "G", "H", "I", "J", "K", "L", "M", "N", "O", "P", "Q", "R",
    "S", "T", "U", "V", "W", "X", "Y", "Z", "a", "b", "c", "d", "e", "f", "g", "h", "i", "j",
    "k", "l", "m", "n", "o", "p", "q", "r", "s", "t", "u", "v", "w", "x", "y", "z", "0", "1",
    "2", "3", "4", "5", "6", "7", "8", "9", "+", "/">>

\* the printable ASCII characters, code 32 first (GRAVE stands for code 96)
AsciiChars ==
  <<" ", "!", "\"", "#", "$", "%", "&", "'", "(", ")", "*", "+", ",", "-", ".", "/", "0", "1",
    "2", "3", "4", "5", "6", "7", "8", "9", ":", ";", "<", "=", ">", "?", "@", "A", "B", "C",
    "D", "E", "F", "G", "H", "I", "J", "K", "L", "M", "N", "O", "P", "Q", "R", "S", "T", "U",
    "V", "W", "X", "Y", "Z", "[", "\\", "]", "^", "_", "GRAVE", "a", "b", "c", "d", "e", "f", "g",
    "h", "i", "j", "k", "l", "m", "n", "o", "p", "q", "r", "s", "t", "u", "v", "w", "x", "y",
    "z", "{", "|", "}", "~">>

IndexOf(seq, x) == CHOOSE i \in 1..Len(seq) : seq[i] = x
B64Char(v) == B64Chars[v + 1]
B64Value(ch) == IndexOf(B64Chars, ch) - 1

\* Buffer.from(str): the UTF-8 bytes of a string of ASCII characters
BufferFrom(str) == [i \in 1..Len(str) |-> IndexOf(AsciiChars, str[i]) + 31]

\* buffer.toString('utf-8') of ASCII bytes
Utf8String(bytes) == [i \in 1..Len(bytes) |-> AsciiChars[bytes[i] - 31]]

\* buffer.toString('base64')
RECURSIVE Base64String(_)
Base64String(bytes) ==
  IF bytes = <<>> THEN <<>>
  ELSE IF Len(bytes) = 1
  THEN <<B64Char(bytes[1] \div 4), B64Char((bytes[1] % 4) * 16), "=", "=">>
  ELSE IF Len(bytes) = 2
  THEN <<B64Char(bytes[1] \div 4), B64Char((bytes[1] % 4) * 16 + bytes[2] \div 16),
         B64Char((bytes[2] % 16) * 4), "=">>
  ELSE <<B64Char(bytes[1] \div 4), B64Char((bytes[1] % 4) * 16 + bytes[2] \div 16),
         B64Char((bytes[2] % 16) * 4 + bytes[3] \div 64), B64Char(bytes[3] % 64)>>
       \o Base64String(SubSeq(bytes, 4, Len(bytes)))

\* the bytes of a run of base64 values
RECURSIVE BytesOfValues(_)
BytesOfValues(v) ==
  IF Len(v) < 2 THEN <<>>
  ELSE IF Len(v) = 2 THEN <<v[1] * 4 + v[2] \div 16>>
  ELSE IF Len(v) = 3 THEN <<v[1] * 4 + v[2] \div 16, (v[2] % 16) * 16 + v[3] \div 4>>
  ELSE <<v[1] * 4 + v[2] \div 16, (v[2] % 16) * 16 + v[3] \div 4, (v[3] % 4) * 64 + v[4]>>
       \o BytesOfValues(SubSeq(v, 5, Len(v)))

\* the characters before the first padding character
RECURSIVE BeforePadding(_)
BeforePadding(str) ==
  IF str = <<>> \/ Head(str) = "=" THEN <<>> ELSE <<Head(str)>> \o BeforePadding(Tail(str))

\* Buffer.from(token, 'base64') for a token over the base64 alphabet
BufferFromBase64(token) ==
  LET data == BeforePadding(token)
  IN BytesOfValues([i \in 1..Len(data) |-> B64Value(data[i])])

\* str.split(sep) for a one-character separator
RECURSIVE Split(_, _)
Split(str, sep) ==
  IF \A i \in 1..Len(str) : str[i] # sep THEN <<str>>
  ELSE LET at == CHOOSE i \in 1..Len(str) :
                   str[i] = sep /\ \A j \in 1..(i - 1) : str[j] # sep
       IN <<SubSeq(str, 1, at - 1)>> \o Split(SubSeq(str, at + 1, Len(str)), sep)

\* a JavaScript number is <<n>>, or <<>> when it is NaN
NaN == <<>>
Digits == <<"0", "1", "2", "3", "4", "5", "6", "7", "8", "9">>
IsDigit(ch) == \E i \in 1..10 : Digits[i] = ch

\* the value of the longest run of decimal digits a string starts with
RECURSIVE DigitRun(_, _)
DigitRun(str, acc) ==
  IF str = <<>> \/ ~IsDigit(Head(str)) THEN acc
  ELSE DigitRun(Tail(str), acc * 10 + IndexOf(Digits, Head(str)) - 1)

\* parseInt(value) for undefined or a string without a radix prefix
parseInt(value) ==
  IF value = Undefined THEN NaN
  ELSE LET str == TrimStart(value[1])
           negative == str # <<>> /\ Head(str) = "-"
           body == IF str # <<>> /\ Head(str) \in {"+", "-"} THEN Tail(str) ELSE str
       IN IF body = <<>> \/ ~IsDigit(Head(body)) THEN NaN
          ELSE IF negative THEN <<0 - DigitRun(body, 0)>> ELSE <<DigitRun(body, 0)>>

\* a > b on numbers, false when an operand is NaN
NumGreater(a, b) == a # NaN /\ b # NaN /\ a[1] > b[1]
\* a - b on numbers, NaN when an operand is NaN
NumMinus(a, b) == IF a = NaN \/ b = NaN THEN NaN ELSE <<a[1] - b[1]>>

S_Bearer == <<"B", "e", "a", "r", "e", "r", " ">>
S_admin == <<"a", "d", "m", "i", "n">>

StartsWith(str, prefix) ==
  Len(str) >= Len(prefix) /\ SubSeq(str, 1, Len(prefix)) = prefix

\* the token of the login route: Buffer.from(`admin:${Date.now()}`).toString('base64')
LoginToken(t) == Base64String(BufferFrom(S_admin \o <<":">> \o NumStr(t)))

-----------------------------------------------------------------------------
(* Route handlers: POST /api/rsvp and POST /api/auth/login                   *)
(* A handler runs synchronously up to its first await (the rate-limit check  *)
(* and, when denied, the 429 response), then continues after request.json(). *)

LoginLimit == 5     \* checkRateLimit(`login:${clientIP}`, 5, ...)
LoginWindow == 15   \* 15 * 60 * 1000 ms
RsvpLimit == 10     \* checkRateLimit(`rsvp:${clientIP}`, 10, ...)
RsvpWindow == 60    \* 60 * 60 * 1000 ms

S_loginPrefix == <<"l", "o", "g", "i", "n", ":">>
S_rsvpPrefix == <<"r", "s", "v", "p", ":">>
S_unknown == <<"u", "n", "k", "n", "o", "w", "n">>


\* the names of SECURITY_HEADERS, which addSecurityHeaders sets on a response
SECURITY_HEADERS ==
  { "X-Content-Type-Options", "X-Frame-Options", "X-XSS-Protection", "Referrer-Policy",
    "Content-Security-Policy" }

\* createSecureResponse(data, status)
createSecureResponse(data, status) ==
  [status |-> status, body |-> data, headers |-> SECURITY_HEADERS]

\* the clientIP expression: the first non-empty of three request headers
ClientIP(headers) ==
  OptOr(headers.xff, OptOr(headers.real, OptOr(headers.cf, <<S_unknown>>)))[1]

\* sanitizeString: drop < > ' ", trim, keep the first 1000 characters
RECURSIVE TrimEnd(_)
TrimEnd(str) ==
  IF str # <<>> /\ str[Len(str)] = " " THEN TrimEnd(SubSeq(str, 1, Len(str) - 1)) ELSE str

Keep(str, dropped) == SelectSeq(str, LAMBDA ch : ch \notin dropped)

sanitizeString(input) ==
  LET plain == Keep(Keep(input, {"<", ">"}), {"'", "\""})
      trimmed == TrimEnd(TrimStart(plain))
  IN SubSeq(trimmed, 1, IF Len(trimmed) < 1000 THEN Len(trimmed) ELSE 1000)

\* emailRegex /^[^\s@]+@[^\s@]+\.[^\s@]+$/
PlainRun(str) == str # <<>> /\ \A i \in 1..Len(str) : str[i] \notin {" ", "@"}

EmailRegexTest(str) ==
  \E i \in 1..Len(str), j \in 1..Len(str) :
    /\ str[i] = "@"
    /\ str[j] = "."
    /\ i < j
    /\ PlainRun(SubSeq(str, 1, i - 1))
    /\ PlainRun(SubSeq(str, i + 1, j - 1))
    /\ PlainRun(SubSeq(str, j + 1, Len(str)))

isValidEmail(email) ==
  LET sanitized == sanitizeString(email)
  IN /\ EmailRegexTest(sanitized)
     /\ Len(sanitized) <= 254
     /\ ~Includes(sanitized, <<".", ".">>)
     /\ sanitized[1] # "."
     /\ sanitized[Len(sanitized)] # "."

\* String.prototype.toLowerCase on the letters of the model's alphabet
LowerChar(ch) == CASE ch = "A" -> "a" [] ch = "B" -> "b" [] ch = "C" -> "c" [] OTHER -> ch
toLowerCase_Identity(str) == str

toLowerCase(str) == [i \in 1..Len(str) |-> LowerChar(str[i])]

\* a field of the request body: truthy when present and non-empty
Truthy(field) == field # Undefined /\ field[1] # <<>>

\* the continuation of the RSVP handler after request.json(): the response
\* and the content of rsvps.json it leaves
RsvpOutcome(body, file) ==
  IF ~body.parses \/ body.json = Null
  THEN [response |-> createSecureResponse([error |-> <<"Failed to save RSVP">>], 500), file |-> file]
  ELSE IF ~(Truthy(body.json.name) /\ Truthy(body.json.email) /\ Truthy(body.json.attendance))
  THEN [response |-> createSecureResponse([error |-> <<"Missing required fields">>], 400), file |-> file]
  ELSE
    LET sanitizedName == sanitizeString(body.json.name[1])
        sanitizedEmail == sanitizeString(body.json.email[1])
        sanitizedAttendance == sanitizeString(body.json.attendance[1])
        sanitizedDietary == IF Truthy(body.json.dietary)
                            THEN sanitizeString(body.json.dietary[1]) ELSE <<>>
        newRSVP == [id |-> now, name |-> sanitizedName, email |-> sanitizedEmail,
                    attendance |-> sanitizedAttendance, dietary |-> sanitizedDietary,
                    submittedAt |-> now]
    IN IF Len(sanitizedName) < 2
       THEN [response |-> createSecureResponse([error |-> <<"Name must be at least 2 characters">>], 400), file |-> file]
       ELSE IF ~isValidEmail(sanitizedEmail)
       THEN [response |-> createSecureResponse([error |-> <<"Invalid email address">>], 400), file |-> file]
       ELSE IF sanitizedAttendance \notin {<<"y", "e", "s">>, <<"n", "o">>,
                                           <<"m", "a", "y", "b", "e">>}
       THEN [response |-> createSecureResponse([error |-> <<"Invalid attendance value">>], 400),
             file |-> file]
       ELSE IF \E i \in 1..Len(file) :
                 toLowerCase(file[i].email) = toLowerCase(sanitizedEmail)
       THEN [response |-> createSecureResponse([error |-> <<"An RSVP already exists for this email address">>], 409), file |-> file]
       ELSE [response |-> createSecureResponse([message |-> <<"RSVP submitted successfully">>, id |-> newRSVP.id],
                                               200),
             file |-> Append(file, newRSVP)]

\* the login continuation after request.json(), up to its response or to the
\* one-second delay that precedes the 401
LoginOutcome(body) ==
  IF ~body.parses
  THEN [delay |-> FALSE,
        response |-> createSecureResponse([success |-> FALSE, message |-> <<"Server error during authentication">>], 500)]
  ELSE IF body.json = Null \/ ~Truthy(body.json.password)
  THEN [delay |-> FALSE,
        response |-> createSecureResponse([success |-> FALSE, message |-> <<"Invalid credentials format">>], 400)]
  ELSE
    LET sanitizedPassword == sanitizeString(body.json.password[1])
        granted == createSecureResponse(
                     [success |-> TRUE, token |-> LoginToken(now), message |-> <<"Login successful">>], 200)
    IN IF env.ADMIN_PASSWORD = Undefined
       THEN IF env.NODE_ENV = "development" /\ sanitizedPassword = <<"wedding123">>
            THEN [delay |-> FALSE, response |-> granted]
            ELSE [delay |-> FALSE,
                  response |-> createSecureResponse(
                                 [success |-> FALSE, message |-> <<"Authentication service not configured">>], 500)]
       ELSE IF sanitizedPassword # env.ADMIN_PASSWORD[1]
       THEN [delay |-> TRUE,
             response |-> createSecureResponse(
                            [success |-> FALSE, message |-> <<"Invalid credentials">>], 401)]
       ELSE [delay |-> FALSE, response |-> granted]

\* history: requests checked and allowed in the current window of a key
ArrivalsAfterCheck(a, m, identifier, maxRequests, windowMs) ==
  LET key == RateLimitKey(identifier)
      current == RateRecord(m, identifier)
      result == CheckResult(current, maxRequests, windowMs)
      old == IF WindowOver(current) \/ key \notin DOMAIN a
             THEN [checked |-> 0, allowed |-> 0] ELSE a[key]
  IN MapSet(a, key, [checked |-> old.checked + 1,
                     allowed |-> old.allowed + (IF result.allowed THEN 1 ELSE 0),
                     maxRequests |-> maxRequests])

\* slots carry no identity: when a handler returns, the requests still in
\* flight are kept in the lowest slots
HandlerReturns(hs, h) ==
  LET busy == SelectSeq([i \in Slots |-> IF i = h THEN Idle ELSE hs[i]],
                        LAMBDA x : x # Idle)
  IN [i \in Slots |-> IF i <= Len(busy) THEN busy[i] ELSE Idle]

\* a handler takes the first slot that holds no request in flight
FreeHandler(h) == handlers[h] = Idle /\ \A g \in Slots : g < h => handlers[g] # Idle

\* the synchronous start of a POST handler: clientIP, checkRateLimit, and the
\* 429 response when the check denies
StartPOST(h, route, prefix, maxRequests, windowMs, tooMany, headers) ==
  LET clientIP == ClientIP(headers)
      identifier == prefix \o clientIP
      rateLimit == CheckResult(RateRecord(rateLimitMap, identifier), maxRequests, windowMs)
  IN /\ FreeHandler(h)
     /\ posts' = posts + 1
     /\ rateLimitMap' = RateMapAfterCheck(rateLimitMap, identifier, maxRequests, windowMs)
     /\ arrivals' = ArrivalsAfterCheck(arrivals, rateLimitMap, identifier, maxRequests,
                                       windowMs)
     /\ handlers' = IF rateLimit.allowed
                    THEN [handlers EXCEPT ![h] = [stage |-> "body", route |-> route]]
                    ELSE handlers
     /\ lastResponse' = [route |-> route, phase |-> "check", clientIP |-> clientIP,
                         rateLimit |-> rateLimit, file |-> rsvpsFile,
                         response |-> IF rateLimit.allowed THEN Null
                                      ELSE createSecureResponse(tooMany, 429)]
     /\ lastCheck' = Null
     /\ lastEvent' = Null
     /\ UNCHANGED <<cacheVars, apiVars, otherVars, calls, srv, transportCalls, prior,
                    checks, inWindow, solo, allowedAt, rsvpsFile, env>>
     /\ unswept' = RateMapAfterCheck(unswept, identifier, maxRequests, windowMs)

RsvpPOST(h, headers) ==
  StartPOST(h, "rsvp", S_rsvpPrefix, RsvpLimit, RsvpWindow, [error |-> <<"Too many RSVP submissions. Please try again later.">>], headers)

LoginPOST(h, headers) ==
  StartPOST(h, "login", S_loginPrefix, LoginLimit, LoginWindow,
            [success |-> FALSE, message |-> <<"Too many login attempts. Please try again later.">>], headers)

\* the RSVP handler after await request.json()
RsvpBody(h, body) ==
  LET outcome == RsvpOutcome(body, rsvpsFile)
  IN /\ handlers[h].stage = "body"
     /\ handlers[h].route = "rsvp"
     /\ rsvpsFile' = outcome.file
     /\ handlers' = HandlerReturns(handlers, h)
     /\ lastResponse' = [route |-> "rsvp", phase |-> "body", clientIP |-> <<>>,
                         rateLimit |-> Null, file |-> rsvpsFile, body |-> body,
                         response |-> outcome.response]
     /\ lastCheck' = Null
     /\ lastEvent' = Null
     /\ UNCHANGED <<cacheVars, apiVars, otherVars, calls, srv, transportCalls, prior,
                    rateLimitMap, checks, inWindow, solo, allowedAt, unswept, posts, env, arrivals>>

\* the login handler after await request.json()
LoginBody(h, body) ==
  LET outcome == LoginOutcome(body)
  IN /\ handlers[h].stage = "body"
     /\ handlers[h].route = "login"
     /\ handlers' = IF outcome.delay
                    THEN [handlers EXCEPT ![h] = [stage |-> "delay", route |-> "login"]]
                    ELSE HandlerReturns(handlers, h)
     /\ lastResponse' = [route |-> "login", phase |-> "body", clientIP |-> <<>>,
                         rateLimit |-> Null, file |-> rsvpsFile,
                         response |-> IF outcome.delay THEN Null ELSE outcome.response]
     /\ lastCheck' = Null
     /\ lastEvent' = Null
     /\ UNCHANGED <<cacheVars, apiVars, otherVars, calls, srv, transportCalls, prior,
                    rateLimitMap, checks, inWindow, solo, allowedAt, unswept, rsvpsFile, posts, env,
                    arrivals>>

\* the login handler after the delay that follows a wrong password
LoginDelay(h) ==
  /\ handlers[h].stage = "delay"
  /\ handlers' = HandlerReturns(handlers, h)
  /\ lastResponse' = [route |-> "login", phase |-> "delay", clientIP |-> <<>>,
                      rateLimit |-> Null, file |-> rsvpsFile,
                      response |-> createSecureResponse(
                                     [success |-> FALSE, message |-> <<"Invalid credentials">>],
                                     401)]
  /\ lastCheck' = Null
  /\ lastEvent' = Null
  /\ UNCHANGED <<cacheVars, apiVars, otherVars, calls, srv, transportCalls, prior,
                 rateLimitMap, checks, inWindow, solo, allowedAt, unswept, rsvpsFile, posts, env,
                 arrivals>>

NoHeaders == [xff |-> Undefined, real |-> Undefined, cf |-> Undefined]
RequestHeaders ==
  { NoHeaders,
    [NoHeaders EXCEPT !.xff = << <<"1", ".", "2">> >>],
    [NoHeaders EXCEPT !.xff = << <<>> >>, !.real = << <<"1", ".", "2">> >>] }

JsonBody(json) == [parses |-> TRUE, json |-> json]
RsvpFields(name, email, attendance) ==
  [name |-> name, email |-> email, attendance |-> attendance, dietary |-> Undefined]
S_yes == <<"y", "e", "s">>
RsvpBodies ==
  { [parses |-> FALSE],
    JsonBody(Null),
    JsonBody(RsvpFields(<< <<"A", "l">> >>, << <<"a", "@", "b", ".", "c">> >>, <<S_yes>>)),
    JsonBody(RsvpFields(<< <<"A", "l">> >>, << <<"A", "@", "b", ".", "c">> >>, <<S_yes>>)),
    JsonBody(RsvpFields(<< <<"A", "l">> >>, Undefined, <<S_yes>>)),
    JsonBody(RsvpFields(<< <<"<", "A", ">">> >>, << <<"a", "@", "b", ".", "c">> >>, <<S_yes>>)),
    JsonBody(RsvpFields(<< <<"A", "l">> >>, << <<"a", "@", "b">> >>, <<S_yes>>)),
    JsonBody(RsvpFields(<< <<"A", "l">> >>, << <<"a", "@", "b", ".", "c">> >>,
                        << <<"s", "i">> >>)) }
LoginBodies ==
  { [parses |-> FALSE],
    JsonBody(Null),
    JsonBody([password |-> Undefined]),
    JsonBody([password |-> <<S_adminPassword>>]),
    JsonBody([password |-> << <<"x">> >>]) }

InitRoutesSpec ==
  /\ now = 0
  /\ endpoint \in Endpoints
  /\ cacheTimeout = DefaultCacheTimeout
  /\ enableCache = TRUE
  /\ cache = EmptyMap
  /\ written = EmptyMap
  /\ lastGet = Null
  /\ steps = 0
  /\ InitApi
  /\ InitService
  /\ InitRate
  /\ InitKey
  /\ InitToken
  /\ InitAuth
  /\ handlers = [h \in Slots |-> Idle]
  /\ rsvpsFile = <<>>
  /\ posts = 0
  /\ env \in Environments
  /\ arrivals = EmptyMap
  /\ lastResponse = Null

\* requests to POST /api/rsvp
NextRsvp ==
  \/ Tick(MaxRouteClock)
  \/ \E h \in Slots :
       \/ \E headers \in RequestHeaders : posts < MaxPosts /\ RsvpPOST(h, headers)
       \/ \E body \in RsvpBodies : RsvpBody(h, body)

\* the RSVP route reads nothing of process.env
InitRsvpSpec == InitRoutesSpec /\ env = DeployedEnv

SpecRsvp == InitRsvpSpec /\ [][NextRsvp]_vars

\* requests to POST /api/auth/login
NextLogin ==
  \/ Tick(MaxRouteClock)
  \/ \E h \in Slots :
       \/ \E headers \in RequestHeaders : posts < MaxLoginPosts /\ LoginPOST(h, headers)
       \/ \E body \in LoginBodies : LoginBody(h, body)
       \/ LoginDelay(h)

SpecLogin == InitRoutesSpec /\ [][NextLogin]_vars

-----------------------------------------------------------------------------
(* The token-validation route                                                *)

\* NextResponse.json(body, { status })
JsonResponse(body, status) == [status |-> status, body |-> body]

\* GET of the token-validation route for the Authorization header it receives
ValidateGET(authHeader) ==
  IF authHeader = Undefined \/ authHeader[1] = <<>> \/ ~StartsWith(authHeader[1], S_Bearer)
  THEN JsonResponse([valid |-> FALSE, message |-> <<"No token provided">>], 401)
  ELSE
    LET token == SubSeq(authHeader[1], 8, Len(authHeader[1]))
        decoded == Utf8String(BufferFromBase64(token))
        parts == Split(decoded, ":")
        user == parts[1]
        timestamp == IF Len(parts) >= 2 THEN <<parts[2]>> ELSE Undefined
        tokenTime == parseInt(timestamp)
    IN IF user # S_admin
       THEN JsonResponse([valid |-> FALSE, message |-> <<"Invalid token">>], 401)
       ELSE IF NumGreater(NumMinus(<<now>>, tokenTime), <<maxAge>>)
       THEN JsonResponse([valid |-> FALSE, message |-> <<"Token expired">>], 401)
       ELSE JsonResponse([valid |-> TRUE], 200)

\* the texts a client encodes as its token
TokenTexts ==
  { S_admin \o <<":", "0">>, S_admin \o <<":", "1">>, S_admin \o <<":", "2">>,
    S_admin, S_admin \o <<":">>, S_admin \o <<":", "x">>, S_admin \o <<":", "1", "x">>,
    S_admin \o <<":", "-", "5">>, S_admin \o <<":", "1", ":", "9">>,
    <<"u", "s", "e", "r", ":", "1">> }

\* the Authorization headers of the requests: none, another scheme, a bearer
\* token (with the text the token encodes)
AuthHeaders ==
  { [text |-> Undefined, header |-> Undefined],
    [text |-> Undefined, header |-> << <<"B", "a", "s", "i", "c", " ", "e", "A", "=", "=">> >>] }
  \cup { [text |-> <<text>>, header |-> <<S_Bearer \o Base64String(BufferFrom(text))>>] :
           text \in TokenTexts }

\* one request to the token-validation route
CallValidateGET(authRequest) ==
  /\ tokenIn' = [text |-> authRequest.text, header |-> authRequest.header]
  /\ tokenOut' = ValidateGET(authRequest.header)
  /\ UNCHANGED <<cacheVars, apiVars, serviceVars, rateVars, keyVars, routeVars, authVars>>

\* time passes between two requests to the token-validation route
TokenTick ==
  /\ now < MaxTokenClock
  /\ now' = now + 1
  /\ tokenIn' = Null
  /\ tokenOut' = Null
  /\ UNCHANGED <<endpoint, cacheTimeout, enableCache, cache, written, lastGet, steps, apiVars,
                 serviceVars, rateVars, keyVars, routeVars, authVars>>

InitTokenSpec ==
  /\ now = 0
  /\ endpoint \in Endpoints
  /\ cacheTimeout = DefaultCacheTimeout
  /\ enableCache = TRUE
  /\ cache = EmptyMap
  /\ written = EmptyMap
  /\ lastGet = Null
  /\ steps = 0
  /\ InitApi
  /\ InitService
  /\ InitRate
  /\ InitKey
  /\ InitToken
  /\ InitAuth
  /\ InitRoutes

NextToken ==
  \/ TokenTick
  \/ \E authRequest \in AuthHeaders : CallValidateGET(authRequest)

SpecToken == InitTokenSpec /\ [][NextToken]_vars

-----------------------------------------------------------------------------
(* C2 *)

GetAllKeys == { getCacheKey(S_getAll, <<f>>) : f \in FilterArgs }
GetByIdKeys == { getCacheKey(S_getById, <<JsString(id)>>) : id \in Ids }

Succeeded(event, ops) ==
  event # Null /\ event.op \in ops /\ event.finished /\ ~event.result.threw

\* C2 (as stated): after a successful create, every getAll entry cached before
\* is a miss, and every getById entry that was a hit before is still a hit
\* with the same value, whatever the id.
C2_Original ==
  Succeeded(lastEvent, {"create"}) =>
    \A k \in DOMAIN lastEvent.before :
      /\ k \in GetAllKeys => CacheLookup(cache, k) = Null
      /\ (k \in GetByIdKeys /\ CacheLookup(lastEvent.before, k) # Null)
           => CacheLookup(cache, k) = CacheLookup(lastEvent.before, k)

-----------------------------------------------------------------------------
(* C3 *)

ClearAllOps == {"update", "patch", "delete", "bulkUpdate", "bulkDelete"}

\* C3: after a successful update, patch, delete, bulkUpdate or bulkDelete the
\* cache is empty, so every read cached before the write is a miss.
C3_WriteClearsAll ==
  Succeeded(lastEvent, ClearAllOps) =>
    /\ cache = EmptyMap
    /\ \A k \in DOMAIN lastEvent.before : CacheLookup(cache, k) = Null

\* a successful update that found a live getById entry in the cache
C3_Witness ==
  /\ Succeeded(lastEvent, {"update"})
  /\ \E k \in DOMAIN lastEvent.before :
       k \in GetByIdKeys /\ CacheLookup(lastEvent.before, k) # Null

-----------------------------------------------------------------------------
(* C4 *)

\* a getAll invoked while the endpoint's last answer for the same filters is
\* younger than the TTL and no write has succeeded since
RepeatedGetAll(event) ==
  /\ event # Null
  /\ event.op = "getAll"
  /\ event.started
  /\ event.prior # Null
  /\ event.at - event.prior.at < cacheTimeout

\* C4: a getAll repeated within the TTL with no write in between issues no
\* transport call and returns the value the first call returned.
C4_CachedRead ==
  RepeatedGetAll(lastEvent) =>
    /\ lastEvent.hit
    /\ lastEvent.issued = 0
    /\ lastEvent.finished
    /\ lastEvent.result = Returned(lastEvent.prior.value)

\* the second getAll, served from the cache one minute after the first
C4_Witness ==
  /\ RepeatedGetAll(lastEvent)
  /\ lastEvent.at > lastEvent.prior.at
  /\ lastEvent.hit
  /\ transportCalls = 1

-----------------------------------------------------------------------------
(* C5 *)

\* C5: for a fixed maxRequests N >= 1 and window W, a call that finds no
\* record or arrives after resetTime is allowed and starts a record with
\* count 1 and resetTime now + W; a call before resetTime is allowed iff fewer
\* than N calls were made in the window so far.
C5_WindowBudget ==
  lastCheck # Null =>
    LET r == lastCheck.current
    IN /\ (r = Null \/ lastCheck.at > r.resetTime) =>
            /\ lastCheck.allowed
            /\ lastCheck.resetTime = lastCheck.at + lastCheck.windowMs
            /\ RateRecord(rateLimitMap, lastCheck.identifier) =
                 [count |-> 1, resetTime |-> lastCheck.at + lastCheck.windowMs]
       /\ (r # Null /\ lastCheck.at < r.resetTime) =>
            (lastCheck.allowed <=> lastCheck.callsBefore < lastCheck.maxRequests)

\* a call allowed with a fresh record after a window in which a call was denied
C5_Witness ==
  /\ lastCheck # Null
  /\ lastCheck.current # Null
  /\ lastCheck.at > lastCheck.current.resetTime
  /\ lastCheck.callsBefore > lastCheck.maxRequests
  /\ lastCheck.allowed
  /\ RateRecord(rateLimitMap, lastCheck.identifier).count = 1

-----------------------------------------------------------------------------
(* C6 *)

\* C6: a denied checkRateLimit call returns the existing resetTime and leaves
\* rateLimitMap as it was.
C6_DeniedLeavesRecord ==
  (lastCheck # Null /\ ~lastCheck.allowed) =>
    /\ lastCheck.current # Null
    /\ lastCheck.resetTime = lastCheck.current.resetTime
    /\ rateLimitMap = lastCheck.before

\* a denied call
C6_Witness ==
  /\ lastCheck # Null
  /\ ~lastCheck.allowed
  /\ lastCheck.current.count = lastCheck.maxRequests

-----------------------------------------------------------------------------
(* C7 *)

\* C7: every identity's record is the record it would have had if no other
\* identity had called checkRateLimit, and every call gets the decision it
\* would have got then.
C7_Isolation ==
  /\ \A i \in Identities : RateRecord(rateLimitMap, i) = solo[i]
  /\ lastCheck # Null => lastCheck.allowed = lastCheck.soloAllowed

\* a call of one identity is denied while another identity has budget left
C7_Witness ==
  /\ lastCheck # Null
  /\ ~lastCheck.allowed
  /\ \E i \in Identities \ {lastCheck.identifier} :
       /\ RateRecord(rateLimitMap, i) # Null
       /\ RateRecord(rateLimitMap, i).count < lastCheck.maxRequests

-----------------------------------------------------------------------------
(* C8 *)

IsFailureResponse(f) == ~f.rejected /\ (~f.ok \/ ~f.parses)

\* C8 (as stated): for a response with a failure status or an unparseable
\* body, the error request raises carries the response's status, together
\* with "Failed to parse response" for an unparseable body and with the
\* server's message and details when present.
C8_Original ==
  (apiIn # Null /\ IsFailureResponse(apiIn)) =>
    /\ apiOut.threw
    /\ apiOut.error.status = apiIn.status
    /\ (~apiIn.parses => apiOut.error.message = M_parse)
    /\ (apiIn.parses /\ apiIn.body.t = "object" /\ OptOr(apiIn.body.message, Undefined) # Undefined
          => apiOut.error.message = apiIn.body.message[1])
    /\ (apiIn.parses /\ apiIn.body.t = "object" /\ apiIn.body.details # Undefined
          /\ apiIn.body.errors = Undefined
          => apiOut.error.details = apiIn.body.details)

-----------------------------------------------------------------------------
(* C9 *)

\* C9 (as stated): exists(id) returns true when getById succeeds, false when
\* the endpoint answers 404, and raises for every other failure.
C9_Original ==
  (lastEvent # Null /\ lastEvent.op = "exists" /\ lastEvent.finished) =>
    IF lastEvent.hit \/ (~lastEvent.fetched.rejected /\ lastEvent.fetched.ok)
    THEN lastEvent.result = Returned(JsBool(TRUE))
    ELSE IF ~lastEvent.fetched.rejected /\ lastEvent.fetched.status = 404
    THEN lastEvent.result = Returned(JsBool(FALSE))
    ELSE lastEvent.result.threw

-----------------------------------------------------------------------------
(* C10 *)

\* C10 (as stated): handleError returns a non-empty string for every error,
\* whatever its status, message and details.
C10_Original == errIn # Null => errOut # <<>>

-----------------------------------------------------------------------------
(* C1 *)

\* what the TTL invariant of the specification expects getCache to return
ExpectStrict(g) ==
  IF g.stored # Null /\ g.at - g.stored.timestamp < g.stored.ttl THEN g.stored.data ELSE Null

ExpectInclusive(g) ==
  IF g.stored # Null /\ g.at - g.stored.timestamp <= g.stored.ttl THEN g.stored.data ELSE Null

\* C1 (as stated): getCache(key) returns the value of the most recent
\* setCache on key iff now - storedAt < ttl, and absent otherwise.
C1_Original == lastGet # Null => lastGet.result = ExpectStrict(lastGet)

\* C1 (amended): getCache(key) returns the value of the most recent setCache
\* that stored an entry for key iff now - storedAt <= ttl of that entry,
\* and absent once now - storedAt > ttl, until a later setCache on key.
C1_TtlInclusive == lastGet # Null => lastGet.result = ExpectInclusive(lastGet)

\* a getCache exactly at the entry's ttl, which still returns the value
C1_Witness ==
  /\ lastGet # Null
  /\ lastGet.stored # Null
  /\ lastGet.at - lastGet.stored.timestamp = lastGet.stored.ttl
  /\ lastGet.result = lastGet.stored.data

-----------------------------------------------------------------------------
(* C19 *)

\* C19: when fetch rejects (no response received), request raises an
\* ApiErrorClass with status 0, code "NETWORK_ERROR" and the message of the
\* rejection.
C19_NetworkError ==
  (apiIn # Null /\ apiIn.rejected) =>
    /\ apiOut.threw
    /\ apiOut.isApiError
    /\ apiOut.error.status = 0
    /\ apiOut.error.code = <<S_NETWORK_ERROR>>
    /\ apiOut.error.message = apiIn.message

\* a rejected fetch whose message reached the caller of request
C19_Witness ==
  /\ apiIn # Null
  /\ apiIn.rejected
  /\ apiIn.message = <<"Load failed">>
  /\ apiOut.threw
  /\ apiOut.error.message = <<"Load failed">>

-----------------------------------------------------------------------------
(* C11 *)

\* a dispatcher operation completed by a transport call that failed
TransportFailed(event) ==
  /\ event # Null
  /\ event.finished
  /\ event.fetched # Null
  /\ (event.fetched.rejected \/ ~event.fetched.ok)

\* C11 (as stated): an operation whose transport call fails raises an error
\* that is an ApiErrorClass carrying the status code, or an error whose
\* message names the failed operation.
C11_Original ==
  TransportFailed(lastEvent) =>
    /\ lastEvent.result.threw
    /\ \/ lastEvent.result.isApiError /\ lastEvent.result.error.status # Undefined
       \/ Includes(lastEvent.result.error.message, lastEvent.context)

\* C11 (amended): an operation whose transport call fails raises an error,
\* never a normal return value; the error is a plain Error without a status
\* code whose message is the user-facing text handleError gives for the
\* transport error, which only exists prefixes with the operation it failed.
C11_FailureRaises ==
  TransportFailed(lastEvent) =>
    LET text == handleError(request(lastEvent.fetched).error)
    IN /\ lastEvent.result.threw
       /\ ~lastEvent.result.isApiError
       /\ lastEvent.result.error.status = Undefined
       /\ lastEvent.result.error.message =
            IF lastEvent.op = "exists"
            THEN <<"Failed to ">> \o lastEvent.context \o <<": ">> \o text
            ELSE text

\* a getAll whose transport call was rejected raises the connectivity text
C11_Witness ==
  /\ TransportFailed(lastEvent)
  /\ lastEvent.op = "getAll"
  /\ lastEvent.fetched.rejected
  /\ lastEvent.result.threw
  /\ lastEvent.result.error.message = M_connect

-----------------------------------------------------------------------------
(* C12 *)

\* two parameter values that denote the same request parameters: equal, or
\* objects with the same properties listed in any order
SameValue(v, w) ==
  \/ v = w
  \/ /\ v.t = "object" /\ w.t = "object"
     /\ {v.kv[i] : i \in 1..Len(v.kv)} = {w.kv[i] : i \in 1..Len(w.kv)}
     /\ Len(v.kv) = Len(w.kv)

SameParams(p, q) ==
  Len(p) = Len(q) /\ \A i \in 1..Len(p) : SameValue(p[i], q[i])

SameRequest(a, b) ==
  a.endpoint = b.endpoint /\ a.method = b.method /\ SameParams(a.params, b.params)

\* C12 (as stated): two requests with the same endpoint, operation and
\* parameter names and values get the same cache key whatever the order of
\* the parameters, so the entry stored for the first is a hit for the second.
C12_Original ==
  (keyIn # Null /\ SameRequest(keyIn[1], keyIn[2])) =>
    /\ keyOut[1] = keyOut[2]
    /\ CacheLookup(CacheAfterSet(EmptyMap, keyOut[1], Data(0), Undefined), keyOut[2]) = Data(0)

-----------------------------------------------------------------------------
(* C13 *)

\* C13 (as stated): getCacheKey gives the same key for the same (endpoint,
\* operation, parameters) and different keys for two triples that differ in
\* a component, an absent parameter versus a null one and names containing
\* the separator included.
C13_Original ==
  keyIn # Null =>
    /\ keyIn[1] = keyIn[2] => keyOut[1] = keyOut[2]
    /\ ~SameRequest(keyIn[1], keyIn[2]) => keyOut[1] # keyOut[2]

-----------------------------------------------------------------------------
(* C14 *)

PaginatedKey(page) == getCacheKey(S_getPaginated, <<PaginatedParams(page, PageLimit)>>)
PaginatedKeys == { PaginatedKey(page) : page \in Pages }

\* key k holds the same entry, or no entry, in both caches
SameEntry(before, after, k) ==
  /\ k \in DOMAIN before <=> k \in DOMAIN after
  /\ k \in DOMAIN before => after[k] = before[k]

-----------------------------------------------------------------------------
(* C15 *)

\* the number of allowed calls in the interval of length Window that ends
\* with the j-th allowed call
BurstAt(h, j) == Cardinality({k \in 1..j : h[k] >= h[j] - Window})

\* the allowed calls of the record's window
AllowedInWindow(h, r) == Cardinality({k \in 1..Len(h) : h[k] >= r.resetTime - Window})

\* the allowed calls of the identity before the call recorded in lastCheck
AllowedBefore ==
  LET h == allowedAt[lastCheck.identifier]
  IN IF lastCheck.allowed THEN SubSeq(h, 1, Len(h) - 1) ELSE h

\* the last Limit allowed calls before lastCheck were all made Window ago
FullBurstWindowAgo ==
  /\ Len(AllowedBefore) >= Limit
  /\ \A k \in (Len(AllowedBefore) - Limit + 1)..Len(AllowedBefore) :
       AllowedBefore[k] = lastCheck.at - Window

\* C15 (as stated): at most N calls are allowed inside one window and at most
\* 2N inside any interval of length W, and a burst of 2N inside an interval of
\* length W does occur across a window boundary: after N calls allowed at one
\* instant, the call made W later opens the next window and is allowed.
C15_Original ==
  /\ \A i \in Identities :
       /\ RateRecord(rateLimitMap, i) # Null =>
            AllowedInWindow(allowedAt[i], RateRecord(rateLimitMap, i)) <= Limit
       /\ \A j \in 1..Len(allowedAt[i]) : BurstAt(allowedAt[i], j) <= 2 * Limit
  /\ (lastCheck # Null /\ FullBurstWindowAgo) => lastCheck.allowed

\* C15 (amended): at most N calls are allowed inside one window, the record
\* counts exactly the allowed calls of its window, and at most 2N - 1 calls
\* are allowed inside any interval of length W.
C15_FixedWindow ==
  \A i \in Identities :
    /\ RateRecord(rateLimitMap, i) # Null =>
         /\ RateRecord(rateLimitMap, i).count <= Limit
         /\ AllowedInWindow(allowedAt[i], RateRecord(rateLimitMap, i))
              = RateRecord(rateLimitMap, i).count
    /\ \A j \in 1..Len(allowedAt[i]) : BurstAt(allowedAt[i], j) <= 2 * Limit - 1

\* 2N - 1 calls allowed inside an interval of length W across a boundary
C15_Witness ==
  \E i \in Identities :
    /\ Len(allowedAt[i]) >= 2 * Limit - 1
    /\ BurstAt(allowedAt[i], Len(allowedAt[i])) = 2 * Limit - 1
    /\ RateRecord(rateLimitMap, i) # Null
    /\ AllowedInWindow(allowedAt[i], RateRecord(rateLimitMap, i)) < 2 * Limit - 1

-----------------------------------------------------------------------------
(* C16 *)

\* the step completes an operation whose transport call failed
FailedStep == TransportFailed(lastEvent') /\ lastEvent'.result.threw

\* the step is the endpoint serving a call in flight
ServedStep == \E c \in Callers : calls[c].stage = "sent" /\ calls'[c].stage = "replied"

\* the step completes an operation whose transport call succeeded
SucceededStep ==
  /\ lastEvent' # Null
  /\ lastEvent'.finished
  /\ ~lastEvent'.hit
  /\ ~lastEvent'.result.threw

\* the step is a read whose getCache deletes the expired entry of its own key,
\* before the read issues its transport call
EvictingStep ==
  /\ lastEvent' # Null
  /\ lastEvent'.started
  /\ lastEvent'.key \in DOMAIN cache
  /\ Expired(cache[lastEvent'.key])
  /\ cache' = MapDelete(cache, lastEvent'.key)

-----------------------------------------------------------------------------
(* C17 *)

\* C17 (as stated): every dispatcher operation that issued a transport call
\* eventually resolves or fails, because a call that does not complete in
\* time surfaces as a status 0 error; no operation stays in flight forever.
C17_Original ==
  \A c \in Callers : (calls[c].stage # "idle") ~> (calls[c].stage = "idle")

-----------------------------------------------------------------------------
(* C18 *)

\* the smaller of two numbers
Least(a, b) == IF a < b THEN a ELSE b

\* C18: for any interleaving of k concurrent requests of one identity inside
\* one window, exactly min(k, maxRequests) are allowed, and the record's count
\* equals the number of allowed requests (no update of the record is lost).
C18_NoLostUpdate ==
  \A key \in DOMAIN arrivals :
    /\ key \in DOMAIN rateLimitMap
    /\ arrivals[key].allowed = Least(arrivals[key].checked, arrivals[key].maxRequests)
    /\ rateLimitMap[key].count = arrivals[key].allowed

\* more requests of one identity than its limit have been checked in one
\* window while an earlier request is still suspended at request.json()
C18_Witness ==
  /\ \E key \in DOMAIN arrivals : arrivals[key].checked > arrivals[key].maxRequests
  /\ \E h \in Slots : handlers[h] # Idle

-----------------------------------------------------------------------------
(* C20 *)

\* the response names the limiter's reset time, in its body or in a header
CarriesReset(response, resetTime) ==
  \/ "resetTime" \in DOMAIN response.body /\ response.body.resetTime = resetTime
  \/ "Retry-After" \in response.headers
  \/ "X-RateLimit-Reset" \in response.headers

\* C20: when checkRateLimit denies a request, the handler answers 429 with the
\* limiter's reset timestamp, before it reads the body (no handler is left in
\* flight for the request and the RSVP file is untouched).
C20_Original ==
  (lastResponse # Null /\ lastResponse.phase = "check" /\ ~lastResponse.rateLimit.allowed)
    => /\ lastResponse.response # Null
       /\ lastResponse.response.status = 429
       /\ rsvpsFile = lastResponse.file
       /\ CarriesReset(lastResponse.response, lastResponse.rateLimit.resetTime)


-----------------------------------------------------------------------------
(* C21 *)

\* the rate-limit keys the login handler can build from the request headers
LoginKeys == { RateLimitKey(S_loginPrefix \o ClientIP(headers)) : headers \in RequestHeaders }

RECURSIVE AllowedSum(_)
AllowedSum(keys) ==
  IF keys = {} THEN 0
  ELSE LET key == CHOOSE k \in keys : TRUE
       IN (IF key \in DOMAIN arrivals THEN arrivals[key].allowed ELSE 0)
          + AllowedSum(keys \ {key})

\* C21: one client gets at most 5 login attempts per 15-minute window past the
\* rate-limit check, whatever request headers it sends. The handler reads
\* nothing of a request but its headers, so the requests of a behaviour are
\* those of one client address that varies the headers; the clock stays inside
\* the first window.
C21_Original == AllowedSum(LoginKeys) <= LoginLimit


-----------------------------------------------------------------------------
(* C22 *)

\* two strings that differ at most in the case of their letters
EqualIgnoringCase(a, b) ==
  /\ Len(a) = Len(b)
  /\ \A i \in 1..Len(a) : LowerChar(a[i]) = LowerChar(b[i])

\* some entry of the store has this email address, ignoring case
Stored(file, email) == \E i \in 1..Len(file) : EqualIgnoringCase(file[i].email, email)

\* the submission passes the handler's validation of name, email and attendance
SubmissionValid(json) ==
  /\ Truthy(json.name) /\ Truthy(json.email) /\ Truthy(json.attendance)
  /\ Len(sanitizeString(json.name[1])) >= 2
  /\ isValidEmail(sanitizeString(json.email[1]))
  /\ sanitizeString(json.attendance[1]) \in {<<"y", "e", "s">>, <<"n", "o">>,
                                              <<"m", "a", "y", "b", "e">>}

\* the step that led here answered an RSVP POST whose email was already stored
PostForStoredEmail ==
  /\ lastResponse # Null
  /\ lastResponse.route = "rsvp"
  /\ lastResponse.phase = "body"
  /\ lastResponse.body.parses
  /\ lastResponse.body.json # Null
  /\ Truthy(lastResponse.body.json.email)
  /\ Stored(lastResponse.file, sanitizeString(lastResponse.body.json.email[1]))

-----------------------------------------------------------------------------
(* C23 *)

\* the request has a token whose text is 'admin:' followed by decimal digits only
WellFormedIssue(text) ==
  /\ text # Undefined
  /\ Len(text[1]) > Len(S_admin) + 1
  /\ StartsWith(text[1], S_admin \o <<":">>)
  /\ \A i \in (Len(S_admin) + 2)..Len(text[1]) : IsDigit(text[1][i])

IssueTime(text) == DigitRun(SubSeq(text[1], Len(S_admin) + 2, Len(text[1])), 0)

\* C23: the token-validation route answers valid only for a token whose issue
\* time is a well-formed timestamp at most 24 hours old, and answers 401 for
\* every token that is older or has no well-formed issue time.
C23_Original ==
  tokenIn # Null =>
    LET fresh == WellFormedIssue(tokenIn.text) /\ now - IssueTime(tokenIn.text) <= maxAge
    IN /\ tokenOut.body.valid => fresh
       /\ ~fresh => tokenOut.status = 401


-----------------------------------------------------------------------------
(* C24 *)

\* the step that led here was a checkRateLimit call made exactly at the reset
\* time of the record it found
CheckAtReset ==
  /\ lastCheck # Null
  /\ lastCheck.current # Null
  /\ lastCheck.at = lastCheck.current.resetTime

\* C24 as stated: a call that arrives exactly at the record's reset time is
\* treated as the window having elapsed: the record is replaced with count 1
\* and a new window, and the call is allowed even if the record was at its limit.
C24_Original ==
  CheckAtReset =>
    /\ lastCheck.allowed
    /\ RateRecord(rateLimitMap, lastCheck.identifier)
         = [count |-> 1, resetTime |-> lastCheck.at + lastCheck.windowMs]

\* C24 as the code has it: a call that arrives exactly at the record's reset
\* time still belongs to the record's window (the window is over only when
\* now > resetTime): it is allowed iff the record is below its limit, it
\* returns the old reset time, and the record keeps its window.
C24_AtResetInsideWindow ==
  CheckAtReset =>
    /\ lastCheck.allowed <=> lastCheck.current.count < lastCheck.maxRequests
    /\ lastCheck.resetTime = lastCheck.current.resetTime
    /\ RateRecord(rateLimitMap, lastCheck.identifier) =
         [count |-> IF lastCheck.allowed THEN lastCheck.current.count + 1
                    ELSE lastCheck.current.count,
          resetTime |-> lastCheck.current.resetTime]

\* a call at the reset time of a record that was at its limit has been denied
C24_Witness ==
  /\ CheckAtReset
  /\ lastCheck.current.count = lastCheck.maxRequests
  /\ ~lastCheck.allowed


-----------------------------------------------------------------------------
(* C25 *)

\* C25: cleanupRateLimit removes only records whose window has expired, so
\* sweeps change no decision and no reset time that checkRateLimit returns:
\* every record of the map is the record there would be without any sweep, a
\* record that is missing had expired, and the call that led here returned what
\* it would have returned had no sweep ever run.
C25_SweepTransparent ==
  /\ \A key \in DOMAIN rateLimitMap :
       key \in DOMAIN unswept /\ rateLimitMap[key] = unswept[key]
  /\ \A key \in DOMAIN unswept \ DOMAIN rateLimitMap : now > unswept[key].resetTime
  /\ lastCheck # Null =>
       /\ lastCheck.allowed = lastCheck.unsweptResult.allowed
       /\ lastCheck.resetTime = lastCheck.unsweptResult.resetTime

\* a call has been made by an identity whose record a sweep had removed
C25_Witness ==
  /\ lastCheck # Null
  /\ lastCheck.current = Null
  /\ lastCheck.unsweptCurrent # Null


-----------------------------------------------------------------------------
(* C27 *)

\* C27: setCache with a ttl of zero or a negative ttl stores an entry that is
\* immediately expired: the next getCache on that key returns absent.
C27_Original ==
  (/\ lastGet # Null
   /\ lastGet.stored # Null
   /\ lastGet.stored.ttlArg # Undefined
   /\ lastGet.stored.ttlArg[1] <= 0)
  => lastGet.result = Null

\* the negative half alone: an entry stored with a negative ttl is never read
C27_NegativeOnly ==
  (/\ lastGet # Null
   /\ lastGet.stored # Null
   /\ lastGet.stored.ttlArg # Undefined
   /\ lastGet.stored.ttlArg[1] < 0)
  => lastGet.result = Null


-----------------------------------------------------------------------------
(* C26 *)

BulkOps == {"bulkCreate", "bulkUpdate", "bulkDelete"}

\* the clearCache argument of the singular counterpart: create clears the
\* list keys, update and delete clear everything
SingularPattern(op) == IF op = "bulkCreate" THEN <<S_getAll>> ELSE <<>>

BulkSucceeded ==
  /\ lastEvent # Null
  /\ lastEvent.finished
  /\ lastEvent.op \in BulkOps
  /\ ~lastEvent.result.threw

\* C26: a successful bulkCreate, bulkUpdate or bulkDelete makes exactly one
\* cache invalidation pass whatever the size of its batch, and that pass is the
\* invalidation of its singular counterpart.
C26_OncePerBatch ==
  BulkSucceeded =>
    /\ lastEvent.passes = 1
    /\ cache = CacheAfterClear(lastEvent.before, SingularPattern(lastEvent.op))

\* a bulkDelete of two ids has succeeded on a cache that held an entry
C26_Witness ==
  /\ BulkSucceeded
  /\ lastEvent.op = "bulkDelete"
  /\ Len(lastEvent.batch) = 2
  /\ lastEvent.before # EmptyMap
  /\ cache = EmptyMap


-----------------------------------------------------------------------------
(* C28 *)

\* a cached read has resolved whose transport call was issued before a write
\* that has since completed and invalidated the cache
ReadOvertaken ==
  /\ lastEvent # Null
  /\ lastEvent.finished
  /\ ~lastEvent.hit
  /\ lastEvent.op \in {"getAll", "getById", "exists", "search", "getPaginated"}
  /\ lastEvent.overtaken # <<>>

\* C28 (as stated): when a read's transport call was issued before a write and
\* resolves after the write's cache invalidation, the cache does not end up
\* holding the pre-write result: the entry of the read's key, if there is one,
\* holds a value the endpoint gave after that write.
C28_Original ==
  (ReadOvertaken /\ lastEvent.key \in DOMAIN cache) =>
    cache[lastEvent.key].data.rev >= lastEvent.overtaken[1]


-----------------------------------------------------------------------------
(* C29 *)

\* C29 (as stated): for any fixed maxRequests, 0 and negative values included,
\* the number of requests checkRateLimit allows inside one window never exceeds
\* maxRequests, and every stored record has count <= maxRequests.
C29_Original ==
  lastCheck # Null =>
    /\ \A key \in DOMAIN rateLimitMap : rateLimitMap[key].count <= lastCheck.maxRequests
    /\ LET r == RateRecord(rateLimitMap, lastCheck.identifier)
       IN AllowedInWindow(allowedAt[lastCheck.identifier], r) <= lastCheck.maxRequests


-----------------------------------------------------------------------------
(* EnhancedAuthService in a browser (typeof window !== 'undefined'): login,  *)
(* logout, refreshTokens, validateSession and the session monitor. A call    *)
(* runs up to its await of apiClient, and its continuation runs when the     *)
(* endpoint has answered.                                                    *)

AuthCacheTimeout == 30   \* 30 * 60 * 1000 ms
S_auth == <<"a", "u", "t", "h">>

AuthUsers == { [id |-> "u1", role |-> "admin"] }
AuthTokens ==
  { [accessToken |-> "a1", refreshToken |-> "r1"],
    [accessToken |-> "a2", refreshToken |-> "r2"] }
SessionIds == { "s1" }

\* an item of localStorage: the JSON text of a value, or a plain string
JsonItem(value) == [json |-> value]
StringItem(str) == [str |-> str]

\* JSON.parse of a stored item
JsonParse(item) == item.json

\* this.currentUser !== null && this.currentTokens !== null
isAuthenticated == currentUser # Null /\ currentTokens # Null

\* localStorage after updateApiClientToken(token); token is <<>> for null
updateApiClientToken(storage, token) ==
  IF token # <<>> /\ token[1] # ""
  THEN MapSet(storage, "api_token", StringItem(token[1]))
  ELSE MapDelete(storage, "api_token")

\* localStorage after the removeItem calls of clearAuthState
StorageAfterClear(storage) ==
  [k \in DOMAIN storage \ {"auth_tokens", "current_user", "session_id", "remember_me"} |->
     storage[k]]

\* localStorage after the setItem calls of a successful login
StorageAfterLogin(storage, response, rememberMe) ==
  LET tokens == MapSet(storage, "auth_tokens", JsonItem(response.tokens))
      user == MapSet(tokens, "current_user", JsonItem(response.user))
      session == MapSet(user, "session_id", StringItem(response.sessionId))
      remember == IF rememberMe THEN MapSet(session, "remember_me", StringItem("true"))
                  ELSE session
  IN updateApiClientToken(remember, <<response.tokens.accessToken>>)

\* what changes in no EnhancedAuthService step
AuthFrame ==
  <<now, endpoint, cacheTimeout, enableCache, lastGet, steps, apiVars, serviceVars, rateVars,
    keyVars, tokenVars, routeVars>>

clearAuthState ==
  /\ currentUser' = Null
  /\ currentTokens' = Null
  /\ localStorage' = updateApiClientToken(StorageAfterClear(localStorage), <<>>)
  /\ sessionCheckInterval' = FALSE
  /\ cache' = CacheAfterClear(cache, <<>>)
  /\ written' = CacheAfterClear(written, <<>>)

\* the sequence without its i-th element
Without(seq, i) == SubSeq(seq, 1, i - 1) \o SubSeq(seq, i + 1, Len(seq))

\* the answers of the auth endpoint
Refused == [ok |-> FALSE]
LoginResponses ==
  { [ok |-> TRUE, user |-> u, tokens |-> t, sessionId |-> sid] :
      u \in AuthUsers, t \in AuthTokens, sid \in SessionIds } \cup { Refused }
RefreshResponses == { [ok |-> TRUE, data |-> t] : t \in AuthTokens } \cup { Refused }
ValidateResponses == { [ok |-> TRUE, data |-> u] : u \in AuthUsers } \cup { Refused }

\* login up to its await of apiClient.post
login(credentials) ==
  /\ authOps < MaxAuthOps
  /\ authOps' = authOps + 1
  /\ authCalls' = Append(authCalls, [op |-> "login", rememberMe |-> credentials.rememberMe,
                                     monitor |-> FALSE])
  /\ UNCHANGED <<AuthFrame, cache, written, currentUser, currentTokens, localStorage,
                 sessionCheckInterval, loggedOut>>

\* the continuation of login: on success the state is stored and the session
\* monitor is started
LoginResolve(i, response) ==
  /\ i \in DOMAIN authCalls
  /\ authCalls[i].op = "login"
  /\ authCalls' = Without(authCalls, i)
  /\ IF response.ok
     THEN /\ currentUser' = response.user
          /\ currentTokens' = response.tokens
          /\ localStorage' = StorageAfterLogin(localStorage, response, authCalls[i].rememberMe)
          /\ sessionCheckInterval' = TRUE
          /\ loggedOut' = FALSE
     ELSE UNCHANGED <<currentUser, currentTokens, localStorage, sessionCheckInterval, loggedOut>>
  /\ UNCHANGED <<AuthFrame, cache, written, authOps>>

\* logout up to its await: with tokens it posts the revocation, without tokens
\* it clears the state at once
logout ==
  /\ authOps < MaxAuthOps
  /\ authOps' = authOps + 1
  /\ IF currentTokens # Null
     THEN /\ authCalls' = Append(authCalls, [op |-> "logout", monitor |-> FALSE])
          /\ UNCHANGED <<cache, written, currentUser, currentTokens, localStorage,
                         sessionCheckInterval, loggedOut>>
     ELSE /\ clearAuthState
          /\ loggedOut' = TRUE
          /\ UNCHANGED authCalls
  /\ UNCHANGED AuthFrame

\* the continuation of logout: a failed revocation is caught and logged, and
\* the state is cleared whatever the endpoint answered
LogoutResolve(i, response) ==
  /\ i \in DOMAIN authCalls
  /\ authCalls[i].op = "logout"
  /\ authCalls' = Without(authCalls, i)
  /\ clearAuthState
  /\ loggedOut' = TRUE
  /\ UNCHANGED <<AuthFrame, authOps>>

\* the synchronous part of refreshTokens: it throws without a refresh token,
\* and the session monitor answers that by clearing the state
StartRefresh(calls0, monitor) ==
  IF currentTokens # Null
  THEN /\ authCalls' = Append(calls0, [op |-> "refresh", monitor |-> monitor])
       /\ UNCHANGED <<cache, written, currentUser, currentTokens, localStorage,
                      sessionCheckInterval>>
  ELSE /\ authCalls' = calls0
       /\ IF monitor THEN clearAuthState
          ELSE UNCHANGED <<cache, written, currentUser, currentTokens, localStorage,
                           sessionCheckInterval>>

refreshTokens ==
  /\ authOps < MaxAuthOps
  /\ authOps' = authOps + 1
  /\ StartRefresh(authCalls, FALSE)
  /\ UNCHANGED <<AuthFrame, loggedOut>>

\* the continuation of refreshTokens: the new tokens are stored; a failure
\* reaches the caller, and the session monitor answers it by clearing the state
RefreshResolve(i, response) ==
  /\ i \in DOMAIN authCalls
  /\ authCalls[i].op = "refresh"
  /\ authCalls' = Without(authCalls, i)
  /\ IF response.ok
     THEN /\ currentTokens' = response.data
          /\ localStorage' =
               updateApiClientToken(MapSet(localStorage, "auth_tokens", JsonItem(response.data)),
                                    <<response.data.accessToken>>)
          /\ UNCHANGED <<cache, written, currentUser, sessionCheckInterval>>
     ELSE IF authCalls[i].monitor THEN clearAuthState
     ELSE UNCHANGED <<cache, written, currentUser, currentTokens, localStorage,
                      sessionCheckInterval>>
  /\ UNCHANGED <<AuthFrame, authOps, loggedOut>>

\* validateSession up to its await of apiClient.get
validateSession ==
  /\ authOps < MaxAuthOps
  /\ authOps' = authOps + 1
  /\ authCalls' = Append(authCalls, [op |-> "validate", monitor |-> FALSE])
  /\ UNCHANGED <<AuthFrame, cache, written, currentUser, currentTokens, localStorage,
                 sessionCheckInterval, loggedOut>>

\* the continuation of validateSession: the user is stored; after a failure the
\* session monitor goes on to refreshTokens
ValidateResolve(i, response) ==
  /\ i \in DOMAIN authCalls
  /\ authCalls[i].op = "validate"
  /\ IF response.ok
     THEN /\ authCalls' = Without(authCalls, i)
          /\ currentUser' = response.data
          /\ localStorage' = MapSet(localStorage, "current_user", JsonItem(response.data))
          /\ UNCHANGED <<cache, written, currentTokens, sessionCheckInterval>>
     ELSE IF authCalls[i].monitor THEN StartRefresh(Without(authCalls, i), TRUE)
     ELSE /\ authCalls' = Without(authCalls, i)
          /\ UNCHANGED <<cache, written, currentUser, currentTokens, localStorage,
                         sessionCheckInterval>>
  /\ UNCHANGED <<AuthFrame, authOps, loggedOut>>

\* the timer of startSessionMonitoring fires: its callback awaits validateSession
SessionCheck ==
  /\ sessionCheckInterval
  /\ authOps < MaxAuthOps
  /\ authOps' = authOps + 1
  /\ authCalls' = Append(authCalls, [op |-> "validate", monitor |-> TRUE])
  /\ UNCHANGED <<AuthFrame, cache, written, currentUser, currentTokens, localStorage,
                 sessionCheckInterval, loggedOut>>

\* localStorage as a session that was not logged out left it
StoredSessions ==
  { StorageAfterLogin(EmptyMap, response, FALSE) : response \in LoginResponses \ { Refused } }

\* the state after the constructor: initializeAuth restores a stored session
\* and starts the session monitor
InitAuthSpec ==
  /\ now = 0
  /\ endpoint = S_auth
  /\ cacheTimeout = OrElse(<<AuthCacheTimeout>>, DefaultCacheTimeout)
  /\ enableCache = TRUE
  /\ cache = EmptyMap
  /\ written = EmptyMap
  /\ lastGet = Null
  /\ steps = 0
  /\ InitApi
  /\ InitService
  /\ InitRate
  /\ InitKey
  /\ InitToken
  /\ InitRoutes
  /\ localStorage \in { EmptyMap } \cup StoredSessions
  /\ currentTokens = IF localStorage = EmptyMap THEN Null
                     ELSE JsonParse(localStorage["auth_tokens"])
  /\ currentUser = IF localStorage = EmptyMap THEN Null
                   ELSE JsonParse(localStorage["current_user"])
  /\ sessionCheckInterval = (localStorage # EmptyMap)
  /\ authCalls = <<>>
  /\ authOps = 0
  /\ loggedOut = FALSE

Credentials == { [rememberMe |-> r] : r \in BOOLEAN }

NextAuth ==
  \/ \E credentials \in Credentials : login(credentials)
  \/ logout
  \/ refreshTokens
  \/ validateSession
  \/ SessionCheck
  \/ \E i \in DOMAIN authCalls :
       \/ \E response \in LoginResponses : LoginResolve(i, response)
       \/ \E response \in {[ok |-> TRUE], Refused} : LogoutResolve(i, response)
       \/ \E response \in RefreshResponses : RefreshResolve(i, response)
       \/ \E response \in ValidateResponses : ValidateResolve(i, response)

SpecAuth == InitAuthSpec /\ [][NextAuth]_vars

-----------------------------------------------------------------------------
(* C30 *)

\* C30 (as stated): once logout() has completed, isAuthenticated() returns
\* false and keeps returning false until the next successful login(), for every
\* interleaving with validateSession() and refreshTokens() calls in flight.
C30_Original == loggedOut => ~isAuthenticated

====
